---- MODULE Spec2Model ----
(***************************************************************************)
(* Walklet API: the reward voucher endpoint POST /dev/rewards/voucher-walk *)
(* of src/server.js, its middleware and the per-user nonce helper.         *)
(*                                                                         *)
(* Strings are sequences of one-character strings.  JavaScript values are  *)
(* records [k, n, s]: k is the kind, n the number (kind "num"), s the      *)
(* characters (kind "str").                                                *)
(***************************************************************************)
EXTENDS Integers, Sequences, FiniteSets, Bags, TLC

(* ------------------------------ bounds -------------------------------- *)
\* no further request is sent once nextNonce was called this many times
MaxNonceCalls == 3

Users == {"u1", "u2"}
Reqs == {"r1", "r2"}

(* --------------------------- JavaScript values ------------------------ *)
Undefined == [k |-> "undefined", n |-> 0, s |-> <<>>]
JsNull == [k |-> "null", n |-> 0, s |-> <<>>]
NaN == [k |-> "nan", n |-> 0, s |-> <<>>]
PosInf == [k |-> "inf", n |-> 0, s |-> <<>>]
NegInf == [k |-> "ninf", n |-> 0, s |-> <<>>]
Num(i) == [k |-> "num", n |-> i, s |-> <<>>]
Str(cs) == [k |-> "str", n |-> 0, s |-> cs]

Rep(c, len) == [i \in 1..len |-> c]

DecDigits == <<"0", "1", "2", "3", "4", "5", "6", "7", "8", "9">>
DigitChars == {DecDigits[i] : i \in 1..10}
HexChars == DigitChars \cup {"a", "b", "c", "d", "e", "f"} \cup {"A", "B", "C", "D", "E", "F"}
LowerHexLetters == {"a", "b", "c", "d", "e", "f"}
UpperHexLetters == {"A", "B", "C", "D", "E", "F"}
Whitespace == {" "}

DigitValue(c) == CHOOSE i \in 0..9 : DecDigits[i + 1] = c

\* the operand of a || b that JavaScript yields
Truthy(x) ==
  \/ x.k = "num" /\ x.n # 0
  \/ x.k \in {"inf", "ninf"}
  \/ x.k = "str" /\ x.s # <<>>

JsOr(a, b) == IF Truthy(a) THEN a ELSE b

RECURSIVE TrimLeft(_)
TrimLeft(cs) ==
  IF cs # <<>> /\ Head(cs) \in Whitespace THEN TrimLeft(Tail(cs)) ELSE cs

RECURSIVE TrimRight(_)
TrimRight(cs) ==
  IF cs # <<>> /\ cs[Len(cs)] \in Whitespace
    THEN TrimRight(SubSeq(cs, 1, Len(cs) - 1))
    ELSE cs

\* String.prototype.trim
Trim(cs) == TrimRight(TrimLeft(cs))

\* String.prototype.startsWith
StartsWith(cs, prefix) ==
  Len(cs) >= Len(prefix) /\ SubSeq(cs, 1, Len(prefix)) = prefix

RECURSIVE DecValue(_)
\* the number a string of decimal digits denotes
DecValue(cs) ==
  IF cs = <<>> THEN 0
  ELSE 10 * DecValue(SubSeq(cs, 1, Len(cs) - 1)) + DigitValue(cs[Len(cs)])

RECURSIVE NatToString(_)
NatToString(i) ==
  IF i < 10 THEN <<DecDigits[i + 1]>>
  ELSE NatToString(i \div 10) \o <<DecDigits[(i % 10) + 1]>>

\* String(x) for the values the handler applies it to
JsString(x) ==
  CASE x.k = "str" -> x.s
    [] x.k = "num" -> IF x.n < 0 THEN <<"-">> \o NatToString(-x.n) ELSE NatToString(x.n)
    [] x.k = "nan" -> <<"N", "a", "N">>
    [] x.k = "inf" -> <<"I", "n", "f", "i", "n", "i", "t", "y">>
    [] x.k = "ninf" -> <<"-", "I", "n", "f", "i", "n", "i", "t", "y">>
    [] x.k = "null" -> <<"n", "u", "l", "l">>
    [] OTHER -> <<"u", "n", "d", "e", "f", "i", "n", "e", "d">>

\* Number(x): a string converts by its trimmed text
JsNumber(x) ==
  CASE x.k = "str" ->
         LET t == Trim(x.s) IN
         IF t = <<>> THEN Num(0)
         ELSE IF \A i \in 1..Len(t) : t[i] \in DigitChars THEN Num(DecValue(t))
         ELSE IF t = JsString(PosInf) THEN PosInf
         ELSE IF t = JsString(NegInf) THEN NegInf
         ELSE NaN
    [] x.k = "null" -> Num(0)
    [] x.k = "undefined" -> NaN
    [] OTHER -> x

\* Math.max(0, x)
MathMax0(x) ==
  CASE x.k = "nan" -> NaN
    [] x.k = "inf" -> PosInf
    [] x.k = "ninf" -> Num(0)
    [] OTHER -> IF x.n < 0 THEN Num(0) ELSE x

\* Number.isFinite
NumberIsFinite(x) == x.k = "num"

(* ------------------------------ configuration ------------------------- *)
CHAIN_ID == 84532
REWARD_STEPS_PER_STPC == 10
TokenDecimals == 18
DomainTag == <<"W", "A", "L", "K", "L", "E", "T", "_", "R", "E", "W", "A", "R", "D">>
ContractAddr == <<"0", "x">> \o Rep("c", 40)

(* ------------------------------ addresses ----------------------------- *)
WalletU1 ==
  <<"0", "x", "5", "a", "A", "e", "b", "6", "0", "5", "3", "F", "3", "E", "9", "4", "C", "9", "b", "9", "A", "0", "9", "f", "3", "3", "6", "6", "9", "4", "3", "5", "E", "7", "E", "f", "1", "B", "e", "A", "e", "d">>
WalletU2 ==
  <<"0", "x", "f", "B", "6", "9", "1", "6", "0", "9", "5", "c", "a", "1", "d", "f", "6", "0", "b", "B", "7", "9", "C", "e", "9", "2", "c", "E", "3", "E", "a", "7", "4", "c", "3", "7", "c", "5", "d", "3", "5", "9">>
\* the address Wallet.createRandom() produced for a user
WalletOf(u) == IF u = "u1" THEN WalletU1 ELSE WalletU2

\* EIP-55: the mixed-case spellings whose checksum is right
Checksummed == {WalletU1, WalletU2}


ToLowerChar(c) ==
  CASE c = "A" -> "a" [] c = "B" -> "b" [] c = "C" -> "c"
    [] c = "D" -> "d" [] c = "E" -> "e" [] c = "F" -> "f" [] OTHER -> c

\* the 20 bytes of an address, written as lower-case hex digits
AddressBytes(addr) == [i \in 1..40 |-> ToLowerChar(addr[i + 2])]

\* the recipient check of the handler: passes when none of its three tests fires
RecipientAccepted(toAddr) ==
  ~(toAddr = <<>> \/ ~StartsWith(toAddr, <<"0", "x">>) \/ Len(toAddr) # 42)

\* ethers getAddress, applied by solidityPacked to a value of type "address":
\* it returns for 0x + 40 hex digits whose mixed-case spelling carries the
\* right checksum, and throws for everything else the recipient check lets by
GetAddressOk(addr) ==
  /\ Len(addr) = 42
  /\ StartsWith(addr, <<"0", "x">>)
  /\ \A i \in 3..42 : addr[i] \in HexChars
  /\ ((\E i \in 3..42 : addr[i] \in LowerHexLetters) /\ (\E i \in 3..42 : addr[i] \in UpperHexLetters)
        => addr \in Checksummed)

\* the quotient is rounded up
MathCeilDiv(steps, rate) == (steps + rate - 1) \div rate

\* Math.floor(steps / REWARD_STEPS_PER_STPC) for a finite steps >= 0
MathFloorDiv(steps, rate) == steps \div rate

\* parseUnits accepts a plain decimal numeral
ParseUnitsOk(cs) == cs # <<>> /\ \A i \in 1..Len(cs) : cs[i] \in DigitChars

\* parseUnits(cs, decimals): the BigInt, as its sequence of decimal digits
ParseUnits(cs, decimals) == [i \in 1..Len(cs) |-> DigitValue(cs[i])] \o Rep(0, decimals)

\* BigInt.prototype.toString
BigIntToString(ds) == [i \in 1..Len(ds) |-> DecDigits[ds[i] + 1]]

\* solidityPackedKeccak256 over the six fields; the hash is kept as its preimage
SolidityPackedKeccak256(contract, chainId, toAddr, amountWei, nonce) ==
  [tag |-> DomainTag, contract |-> AddressBytes(contract), chainId |-> chainId,
   user |-> AddressBytes(toAddr), amount |-> amountWei, nonce |-> nonce]

\* rewardSigner.signMessage(getBytes(digest))
SignMessage(digest) == [signer |-> "rewardSigner", digest |-> digest]

NoDigest == SolidityPackedKeccak256(ContractAddr, 0, ContractAddr, <<>>, 0)

(* ------------------------------ state --------------------------------- *)
VARIABLES
  DEV_TOOLS,              \* process.env.DEV_TOOLS
  rewardSigner,           \* TRUE when the signer was loaded at start, FALSE for null
  STPC_CONTRACT_ADDRESS,  \* the configured contract address, <<>> when missing
  users,                  \* the rows of table users, by id
  reqs,                   \* the requests being handled, by slot
  nonceCalls,             \* per user, how often nextNonce was called
  issued,                 \* per user, the bag of the nonces sent in 200 responses
  walk_sessions,          \* the rows of table walk_sessions
  meal_analyses,          \* the rows of table meal_analyses
  serial,                 \* per table, how many row ids the store has handed out
  now,                    \* the clock, in minutes since the epoch
  calls,                  \* the requests to the other endpoints being handled, by slot
  usdaCache               \* the Map usdaCache: its values by key

config == <<DEV_TOOLS, rewardSigner, STPC_CONTRACT_ADDRESS>>
\* what the voucher endpoint never touches
service == <<walk_sessions, meal_analyses, serial, now, calls, usdaCache>>
vars == <<DEV_TOOLS, rewardSigner, STPC_CONTRACT_ADDRESS, users, reqs, nonceCalls, issued,
          walk_sessions, meal_analyses, serial, now, calls, usdaCache>>

RECURSIVE SumOver(_, _)
SumOver(f, S) ==
  IF S = {} THEN 0 ELSE LET x == CHOOSE y \in S : TRUE IN f[x] + SumOver(f, S \ {x})

TotalNonceCalls == SumOver(nonceCalls, Users)

ErrMsg(text) == [text |-> text, args |-> <<>>]
NotEnoughStepsMsg ==
  [text |-> "Not enough steps for a reward. Need at least %1 steps",
   args |-> <<NatToString(REWARD_STEPS_PER_STPC)>>]

NoRes == [status |-> 0, body |-> [error |-> ErrMsg("")]]

IdleReq ==
  [pc |-> "idle", auth |-> [k |-> "none", sub |-> ""],
   body |-> [steps |-> Undefined, to |-> Undefined],
   sub |-> "", steps |-> Undefined, toAddr |-> <<>>, stpc |-> 0, amountWei |-> <<>>,
   next |-> 0, digest |-> NoDigest, res |-> NoRes, thrown |-> "",
   reads |-> 0, writes |-> 0, signs |-> 0, callNo |-> 0, storeErr |-> "",
   recipient |-> ""]

\* res.status(status).json({ error })
Reply(q, status, msg) ==
  [q EXCEPT !.pc = "done", !.res = [status |-> status, body |-> [error |-> msg]]]

\* the catch block sends the nonce it holds along with the error
ThrowWithNonce(q, what) ==
  [q EXCEPT !.pc = "done", !.thrown = what,
            !.res = [status |-> 500,
                     body |-> [error |-> ErrMsg("Failed to create voucher"), nonce |-> q.next]]]

\* the catch block answers as for a bad request
ThrowBadRequest(q, what) ==
  [Reply(q, 400, ErrMsg("Failed to create voucher")) EXCEPT !.thrown = what]

\* a throw inside the try block lands in the catch of the handler
Throw(q, what) ==
  [Reply(q, 500, ErrMsg("Failed to create voucher")) EXCEPT !.thrown = what]

NonceValue(u) == JsNumber(JsOr(users[u].last_reward_nonce, Num(0))).n

(* ------------------------------ inputs -------------------------------- *)
AuthInputs ==
  {[k |-> "none", sub |-> ""], [k |-> "bad", sub |-> ""]} \cup {[k |-> "ok", sub |-> u] : u \in Users}

AddrLower == <<"0", "x">> \o Rep("a", 40)
AddrUpper == <<"0", "x">> \o Rep("B", 40)
Hex39 == <<"0", "x">> \o Rep("a", 39)
Hex41 == <<"0", "x">> \o Rep("a", 41)
NonHex42 == <<"0", "x">> \o Rep("a", 39) \o <<"z">>
NoPrefix42 == Rep("a", 42)
Padded == <<" ">> \o AddrLower \o <<" ">>
BadChecksum ==
  <<"0", "x", "5", "A", "A", "e", "b", "6", "0", "5", "3", "F", "3", "E", "9", "4", "C", "9", "b", "9", "A", "0", "9", "f", "3", "3", "6", "6", "9", "4", "3", "5", "E", "7", "E", "f", "1", "B", "e", "A", "e", "d">>

ToInputs ==
  {Undefined, Str(<<>>), Str(AddrLower), Str(AddrUpper), Str(WalletU2), Str(Hex39), Str(Hex41),
   Str(NonHex42), Str(NoPrefix42), Str(Padded), Str(BadChecksum)}

StepsInputs ==
  {Undefined, Num(-5), Num(9), Num(10), Num(25), Num(35),
   Str(<<"3", "5">>), Str(<<"a", "b", "c">>), PosInf, NegInf}

Bodies == [steps : StepsInputs, to : ToInputs]

\* the request bodies of the interleaved runs
ConcBodies == [steps : {Num(9), Num(10)}, to : {Undefined}]

(* ------------------------------ the tables --------------------------- *)
UpperLetters ==
  <<"A", "B", "C", "D", "E", "F", "G", "H", "I", "J", "K", "L", "M",
    "N", "O", "P", "Q", "R", "S", "T", "U", "V", "W", "X", "Y", "Z">>
LowerLetters ==
  <<"a", "b", "c", "d", "e", "f", "g", "h", "i", "j", "k", "l", "m",
    "n", "o", "p", "q", "r", "s", "t", "u", "v", "w", "x", "y", "z">>

LowerChar(c) ==
  IF \E i \in 1..Len(UpperLetters) : UpperLetters[i] = c
    THEN LowerLetters[CHOOSE i \in 1..Len(UpperLetters) : UpperLetters[i] = c]
    ELSE c

\* String.prototype.toLowerCase
ToLowerCase(cs) == [i \in 1..Len(cs) |-> LowerChar(cs[i])]

ALG == <<"a", "e", "s", "-", "2", "5", "6", "-", "g", "c", "m">>

\* createAndEncryptWallet, for the key pair Wallet.createRandom() drew
CreateAndEncryptWallet(address) ==
  [address |-> address, ciphertext |-> <<"c", "t">>, iv |-> <<"i", "v">>,
   tag |-> <<"t", "g">>, alg |-> ALG]

\* the columns the handlers write when they store a wallet
WalletUpdate(w, at) ==
  [wallet_address |-> Str(w.address), wallet_encrypted |-> Str(w.ciphertext),
   wallet_iv |-> Str(w.iv), wallet_tag |-> Str(w.tag), wallet_alg |-> Str(w.alg),
   wallet_created_at |-> Num(at)]

NoColumns == [c \in {} |-> JsNull]

\* update(fields) applied to one row
Update(row, fields) ==
  [c \in DOMAIN row |-> IF c \in DOMAIN fields THEN fields[c] ELSE row[c]]

\* the row an insert of (email, password_hash) creates: every other column null
NewUserRow(email, password_hash) ==
  [email |-> Str(email), password_hash |-> Str(password_hash), username |-> JsNull,
   wallet_address |-> JsNull, wallet_encrypted |-> JsNull, wallet_iv |-> JsNull,
   wallet_tag |-> JsNull, wallet_alg |-> JsNull, wallet_created_at |-> JsNull,
   last_reward_nonce |-> JsNull, daily_step_goal |-> JsNull]

EmailU1 == <<"a", "@", "x", ".", "i", "o">>
EmailU2 == <<"b", "@", "x", ".", "i", "o">>
EmailOf(u) == IF u = "u1" THEN EmailU1 ELSE EmailU2
PasswordHash == <<"$", "2", "a", "$">>

\* the row of a signed-up user
UserRow(u, hasWallet, nonce) ==
  Update([NewUserRow(EmailOf(u), PasswordHash) EXCEPT !.last_reward_nonce = nonce],
         IF hasWallet THEN WalletUpdate(CreateAndEncryptWallet(WalletOf(u)), 0) ELSE NoColumns)

Slots == {"s1", "s2"}

NoReply == [status |-> 0, body |-> [error |-> ""]]

\* a free slot: op is the endpoint, arg the parsed input, tmp what the handler
\* holds across its awaits
IdleCall ==
  [op |-> "", pc |-> "idle", auth |-> [k |-> "none", sub |-> ""], sub |-> "",
   input |-> NoColumns, arg |-> NoColumns, tmp |-> NoColumns, res |-> NoReply]

Tables == {"users", "walk_sessions", "meal_analyses"}

(* ------------------------------ Init ---------------------------------- *)
Init ==
  /\ DEV_TOOLS \in {"1", ""}
  /\ rewardSigner \in BOOLEAN
  /\ STPC_CONTRACT_ADDRESS \in {<<>>, ContractAddr}
  /\ \E hasWallet \in [Users -> BOOLEAN], nonce \in [Users -> {JsNull, Num(0)}] :
       users = [u \in Users |-> UserRow(u, hasWallet[u], nonce[u])]
  /\ reqs = [r \in Reqs |-> IdleReq]
  /\ nonceCalls = [u \in Users |-> 0]
  /\ issued = [u \in Users |-> EmptyBag]
  /\ walk_sessions = {}
  /\ meal_analyses = {}
  /\ serial = [t \in Tables |-> IF t = "users" THEN Cardinality(Users) ELSE 0]
  /\ now = 0
  /\ calls = [s \in Slots |-> IdleCall]
  /\ usdaCache = NoColumns

(* ------------------------------ the handler --------------------------- *)
\* Math.max(0, Number(req.body?.steps || 0))
StepsOf(b) == MathMax0(JsNumber(JsOr(b.steps, Num(0))))

\* the handler does not look at its configuration
ReceiveStepNoConfigCheck(q0, a, b) ==
  IF a.k = "none" THEN Reply(q0, 401, ErrMsg("Missing token"))
  ELSE IF a.k = "bad" THEN Reply(q0, 401, ErrMsg("Invalid or expired token"))
  ELSE
    LET q1 == [q0 EXCEPT !.sub = a.sub] IN
    IF DEV_TOOLS # "1"
      THEN Reply(q1, 403, ErrMsg("Dev tools disabled. Set DEV_TOOLS=1 in .env"))
    ELSE
      LET steps == StepsOf(b) IN
      IF ~NumberIsFinite(steps)
        THEN Reply(q1, 400, ErrMsg("Invalid steps"))
        ELSE [q1 EXCEPT !.steps = steps, !.pc = "lookup", !.reads = 1]

\* the route is registered without devGuard
ReceiveStepNoDevGuard(q0, a, b) ==
  IF a.k = "none" THEN Reply(q0, 401, ErrMsg("Missing token"))
  ELSE IF a.k = "bad" THEN Reply(q0, 401, ErrMsg("Invalid or expired token"))
  ELSE
    LET q1 == [q0 EXCEPT !.sub = a.sub] IN
    IF ~rewardSigner
      THEN Reply(q1, 500, ErrMsg("No reward signer configured"))
    ELSE IF STPC_CONTRACT_ADDRESS = <<>>
      THEN Reply(q1, 500, ErrMsg("STPC_CONTRACT_ADDRESS missing"))
    ELSE
      LET steps == StepsOf(b) IN
      IF ~NumberIsFinite(steps)
        THEN Reply(q1, 400, ErrMsg("Invalid steps"))
        ELSE [q1 EXCEPT !.steps = steps, !.pc = "lookup", !.reads = 1]

\* authMiddleware, devGuard and the handler up to its first await
ReceiveStep(q0, a, b) ==
  IF a.k = "none" THEN Reply(q0, 401, ErrMsg("Missing token"))
  ELSE IF a.k = "bad" THEN Reply(q0, 401, ErrMsg("Invalid or expired token"))
  ELSE
    LET q1 == [q0 EXCEPT !.sub = a.sub] IN
    IF DEV_TOOLS # "1"
      THEN Reply(q1, 403, ErrMsg("Dev tools disabled. Set DEV_TOOLS=1 in .env"))
    ELSE IF ~rewardSigner
      THEN Reply(q1, 500, ErrMsg("No reward signer configured"))
    ELSE IF STPC_CONTRACT_ADDRESS = <<>>
      THEN Reply(q1, 500, ErrMsg("STPC_CONTRACT_ADDRESS missing"))
    ELSE
      LET steps == StepsOf(b) IN
      IF ~NumberIsFinite(steps)
        THEN Reply(q1, 400, ErrMsg("Invalid steps"))
        ELSE [q1 EXCEPT !.steps = steps, !.pc = "lookup", !.reads = 1]

\* a request arrives in a free slot
Receive(r, a, b) ==
  /\ reqs[r].pc = "idle"
  /\ TotalNonceCalls < MaxNonceCalls
  /\ reqs' = [reqs EXCEPT ![r] = ReceiveStep([IdleReq EXCEPT !.auth = a, !.body = b], a, b)]
  /\ UNCHANGED <<config, users, nonceCalls, issued, service>>

\* a request with no whole token is let by
NoRewardNegative(stpc) == stpc < 0

\* the test that turns a request away for too few steps
NoReward(stpc) == stpc <= 0

\* String(req.body?.to || userRow?.wallet_address || "").trim()
ResolveRecipient(to, wallet_address) ==
  Trim(JsString(JsOr(JsOr(to, wallet_address), Str(<<>>))))

\* from the answer of the wallet_address query to the first await of nextNonce
LookupStep(q, ok, userRow) ==
  IF ~ok THEN Reply(q, 500, ErrMsg("User lookup failed"))
  ELSE
    LET toAddr == ResolveRecipient(q.body.to, userRow.wallet_address)
        q1 == [q EXCEPT !.toAddr = toAddr]
    IN
    IF ~RecipientAccepted(toAddr)
      THEN Reply([q1 EXCEPT !.recipient = "rejected"], 400,
                 ErrMsg("Destination wallet address required (body.to or app wallet)"))
    ELSE
      LET stpc == MathFloorDiv(q.steps.n, REWARD_STEPS_PER_STPC)
          q2 == [q1 EXCEPT !.stpc = stpc, !.recipient = "accepted"]
      IN
      IF NoReward(stpc) THEN Reply(q2, 400, NotEnoughStepsMsg)
      ELSE IF ~ParseUnitsOk(JsString(Num(stpc))) THEN Throw(q2, "invalid FixedNumber string value")
      ELSE [q2 EXCEPT !.amountWei = ParseUnits(JsString(Num(stpc)), TokenDecimals),
                      !.pc = "nonceRead", !.reads = 2]

LookupReturn(r, ok) ==
  /\ reqs[r].pc = "lookup"
  /\ LET q == LookupStep(reqs[r], ok, users[reqs[r].sub]) IN
     IF q.pc = "nonceRead"
       THEN /\ nonceCalls' = [nonceCalls EXCEPT ![q.sub] = @ + 1]
            /\ reqs' = [reqs EXCEPT ![r] = [q EXCEPT !.callNo = nonceCalls[q.sub] + 1]]
       ELSE /\ nonceCalls' = nonceCalls
            /\ reqs' = [reqs EXCEPT ![r] = q]
  /\ UNCHANGED <<config, users, issued, service>>

\* the increment is left out
NonceReadStepNoIncrement(q, ok, row) ==
  IF ~ok THEN Throw(q, "Nonce read failed")
  ELSE [q EXCEPT !.next = JsNumber(JsOr(row.last_reward_nonce, Num(0))).n, !.pc = "nonceWrite"]

\* nextNonce: the answer of the select, then prev, next and the update request
NonceReadStep(q, ok, row) ==
  IF ~ok THEN Throw(q, "Nonce read failed")
  ELSE
    LET prev == JsNumber(JsOr(row.last_reward_nonce, Num(0))).n
        next == prev + 1
    IN [q EXCEPT !.next = next, !.pc = "nonceWrite"]

NonceRead(r, ok) ==
  /\ reqs[r].pc = "nonceRead"
  /\ reqs' = [reqs EXCEPT ![r] = [NonceReadStep(reqs[r], ok, users[reqs[r].sub])
                                    EXCEPT !.storeErr = IF ok THEN @ ELSE "read"]]
  /\ UNCHANGED <<config, users, nonceCalls, issued, service>>

\* the error of the update is not looked at
NonceWriteStepIgnoreError(q, ok) ==
  [q EXCEPT
     !.writes = @ + 1,
     !.digest = SolidityPackedKeccak256(STPC_CONTRACT_ADDRESS, CHAIN_ID, q.toAddr,
                                        q.amountWei, q.next),
     !.pc = "sign", !.signs = @ + 1]

\* nextNonce: the answer of the update, the return of next, then the digest
\* and the call of signMessage
NonceWriteStep(q, ok) ==
  IF ~ok THEN Throw(q, "Nonce update failed")
  ELSE
    LET q1 == [q EXCEPT !.writes = @ + 1] IN
    IF ~GetAddressOk(STPC_CONTRACT_ADDRESS) \/ ~GetAddressOk(q.toAddr)
      THEN Throw(q1, "invalid address")
      ELSE [q1 EXCEPT
              !.digest = SolidityPackedKeccak256(STPC_CONTRACT_ADDRESS, CHAIN_ID, q.toAddr,
                                                 q.amountWei, q.next),
              !.pc = "sign", !.signs = @ + 1]

\* the update of nextNonce without its filter on id
NonceWriteEveryRow(r, ok) ==
  /\ reqs[r].pc = "nonceWrite"
  /\ reqs' = [reqs EXCEPT ![r] = [NonceWriteStep(reqs[r], ok)
                                    EXCEPT !.storeErr = IF ok THEN @ ELSE "write"]]
  /\ users' = IF ok
                THEN [u \in DOMAIN users |->
                        [users[u] EXCEPT !.last_reward_nonce = Num(reqs[r].next)]]
                ELSE users
  /\ UNCHANGED <<config, nonceCalls, issued, service>>

NonceWrite(r, ok) ==
  /\ reqs[r].pc = "nonceWrite"
  /\ reqs' = [reqs EXCEPT ![r] = [NonceWriteStep(reqs[r], ok)
                                    EXCEPT !.storeErr = IF ok THEN @ ELSE "write"]]
  /\ users' = IF ok
                THEN [users EXCEPT ![reqs[r].sub].last_reward_nonce = Num(reqs[r].next)]
                ELSE users
  /\ UNCHANGED <<config, nonceCalls, issued, service>>

\* the body of the 200 response
VoucherBody(q, signature) ==
  [contractAddress |-> STPC_CONTRACT_ADDRESS, chainId |-> CHAIN_ID, user |-> q.toAddr,
   amount |-> BigIntToString(q.amountWei), nonce |-> q.next, signature |-> signature,
   stpc |-> q.stpc, stepsPerStpc |-> REWARD_STEPS_PER_STPC]

\* a failed signMessage is called again
SignStepRetries(q, ok) ==
  IF ~ok THEN [q EXCEPT !.signs = @ + 1]
  ELSE [q EXCEPT !.pc = "done",
                 !.res = [status |-> 200, body |-> VoucherBody(q, SignMessage(q.digest))]]

\* the handler after signMessage has settled
SignStep(q, ok) ==
  IF ~ok THEN Throw(q, "signMessage failed")
  ELSE [q EXCEPT !.pc = "done",
                 !.res = [status |-> 200, body |-> VoucherBody(q, SignMessage(q.digest))]]

SignReturn(r, ok) ==
  /\ reqs[r].pc = "sign"
  /\ LET q == SignStep(reqs[r], ok) IN
     /\ reqs' = [reqs EXCEPT ![r] = q]
     /\ issued' = IF q.res.status = 200
                    THEN [issued EXCEPT ![q.sub] = @ (+) SetToBag({q.res.body.nonce})]
                    ELSE issued
  /\ UNCHANGED <<config, users, nonceCalls, service>>

\* the response has left and the slot is free again
Finish(r) ==
  /\ reqs[r].pc = "done"
  /\ reqs' = [reqs EXCEPT ![r] = IdleReq]
  /\ UNCHANGED <<config, users, nonceCalls, issued, service>>

(* ------------------------------ dates --------------------------------- *)
\* times are counted in minutes, and the dates are those of 1970-01-01
MinutesPerDay == 1440
DatePrefix == <<"1", "9", "7", "0", "-", "0", "1", "-", "0", "1", "T">>
ZeroSeconds == <<":", "0", "0", ".", "0", "0", "0">>

IsDigits(cs) == \A i \in 1..Len(cs) : cs[i] \in DigitChars

\* HH:mm as minutes, or -1
ClockParse(cs) ==
  IF Len(cs) = 5 /\ cs[3] = ":" /\ IsDigits(SubSeq(cs, 1, 2)) /\ IsDigits(SubSeq(cs, 4, 5))
       /\ DecValue(SubSeq(cs, 1, 2)) < 24 /\ DecValue(SubSeq(cs, 4, 5)) < 60
    THEN 60 * DecValue(SubSeq(cs, 1, 2)) + DecValue(SubSeq(cs, 4, 5))
    ELSE -1

\* Date.parse of 1970-01-01THH:mm[:00.000](Z|+HH:mm|-HH:mm), NaN for other text
DateParse(cs) ==
  IF Len(cs) < 17 \/ ~StartsWith(cs, DatePrefix) THEN NaN
  ELSE
    LET local == ClockParse(SubSeq(cs, 12, 16))
        rest == SubSeq(cs, 17, Len(cs))
        zone == IF StartsWith(rest, ZeroSeconds) THEN SubSeq(rest, 8, Len(rest)) ELSE rest
    IN
    IF local < 0 \/ zone = <<>> THEN NaN
    ELSE IF zone = <<"Z">> THEN Num(local)
    ELSE IF Head(zone) \in {"+", "-"} /\ ClockParse(Tail(zone)) >= 0
      THEN Num(IF Head(zone) = "+" THEN local - ClockParse(Tail(zone))
                                   ELSE local + ClockParse(Tail(zone)))
    ELSE NaN

TwoDigits(i) == <<DecDigits[(i \div 10) + 1], DecDigits[(i % 10) + 1]>>

\* Date.prototype.toISOString for an instant of 1970-01-01
ToISOString(t) ==
  DatePrefix \o TwoDigits(t \div 60) \o <<":">> \o TwoDigits(t % 60) \o ZeroSeconds \o <<"Z">>

\* localWindowUtc(tzOffsetMin) at time t
LocalWindowUtc(tzOffsetMin, t) ==
  LET offsetMin == JsNumber(JsOr(tzOffsetMin, Num(0))).n
      localNowMs == t + offsetMin
      localMidnight == localNowMs - (localNowMs % MinutesPerDay)
      startUtcMs == localMidnight - offsetMin
  IN [startUtc |-> startUtcMs, endUtc |-> startUtcMs + MinutesPerDay]

\* z.coerce.number().optional().default(0)
TzParse(x) == IF x.k = "undefined" THEN Num(0) ELSE JsNumber(x)

(* ------------------------------ the other endpoints ------------------- *)
\* res.status(status).json(body)
Answer(c, status, body) == [c EXCEPT !.pc = "done", !.res = [status |-> status, body |-> body]]

\* authMiddleware and what it leaves in req.user
NewCall(op, a, input) ==
  LET c == [IdleCall EXCEPT !.op = op, !.auth = a, !.input = input] IN
  IF a.k = "none" THEN Answer(c, 401, [error |-> "Missing token"])
  ELSE IF a.k = "bad" THEN Answer(c, 401, [error |-> "Invalid or expired token"])
  ELSE [c EXCEPT !.sub = a.sub, !.pc = "handler"]

\* devGuard
DevGuard(c) ==
  IF c.pc = "handler" /\ DEV_TOOLS # "1"
    THEN Answer(c, 403, [error |-> "Dev tools disabled. Set DEV_TOOLS=1 in .env"])
    ELSE c

\* the response has left and the slot is free again
CallFinish(s) ==
  /\ calls[s].pc = "done"
  /\ calls' = [calls EXCEPT ![s] = IdleCall]
  /\ UNCHANGED <<config, users, reqs, nonceCalls, issued, walk_sessions, meal_analyses, serial, now, usdaCache>>

(* ------------------------------ POST /walks --------------------------- *)
\* a number with a fractional part: i + 1/2
Half(i) == [k |-> "half", n |-> i, s |-> <<>>]

\* z.string().refine((s) => !isNaN(Date.parse(s)))
ZodDateString(x) == x.k = "str" /\ DateParse(x.s).k = "num"
\* the lower bound is left out
ZodInt(x) == x.k = "num"

\* z.number().int().min(0)
ZodIntMin0(x) == x.k = "num" /\ x.n >= 0
\* z.number().min(0)
ZodNumberMin0(x) == x.k \in {"num", "half"} /\ x.n >= 0

\* the paths walkSchema reports
WalkIssues(b) ==
  LET fields == {f \in {"startedAt", "endedAt"} : ~ZodDateString(b[f])}
                  \cup {f \in {"durationSec", "steps"} : ~ZodIntMin0(b[f])}
                  \cup {f \in {"distanceM"} : ~ZodNumberMin0(b[f])}
  IN
  IF ZodDateString(b.startedAt) /\ ZodDateString(b.endedAt)
       /\ ~(DateParse(b.endedAt.s).n >= DateParse(b.startedAt.s).n)
    THEN fields \cup {"endedAt"}
    ELSE fields

\* the handler up to the await of its insert
WalksReceiveStep(c) ==
  IF c.pc # "handler" THEN c
  ELSE IF WalkIssues(c.input) # {}
    THEN Answer(c, 400, [error |-> "Invalid input", details |-> WalkIssues(c.input)])
  ELSE
    [c EXCEPT !.pc = "insert",
              !.tmp = [user_id |-> c.sub,
                       started_at |-> ToISOString(DateParse(c.input.startedAt.s).n),
                       ended_at |-> ToISOString(DateParse(c.input.endedAt.s).n),
                       duration_sec |-> c.input.durationSec,
                       distance_m |-> c.input.distanceM,
                       steps |-> c.input.steps]]


\* no further walk is submitted once the store has handed out this many ids
MaxWalkIds == 2

WalksReceive(s, a, b) ==
  /\ calls[s].pc = "idle"
  /\ serial["walk_sessions"] < MaxWalkIds
  /\ calls' = [calls EXCEPT ![s] = WalksReceiveStep(NewCall("POST /walks", a, b))]
  /\ UNCHANGED <<config, users, reqs, nonceCalls, issued, walk_sessions, meal_analyses, serial, now, usdaCache>>

\* the unique index of walk_sessions on (user_id, started_at)
WalkUniqueViolation(row) ==
  \E w \in walk_sessions : w.user_id = row.user_id /\ w.started_at = row.started_at

\* what the store answers to the insert: the new row, or an error code
WalksInsertResult(row, ok) ==
  IF ~ok THEN [code |-> "08006", data |-> row]
  ELSE IF WalkUniqueViolation(row) THEN [code |-> "23505", data |-> row]
  ELSE [code |-> "", data |-> [id |-> serial["walk_sessions"] + 1] @@ row]

\* a unique violation is reported like any other store error
WalksInsertStepDuplicateFails(c, result) ==
  IF result.code # "" THEN Answer(c, 500, [error |-> "Failed to save walk"])
  ELSE Answer(c, 201, [walk |-> result.data])

\* the handler after the insert has answered
WalksInsertStep(c, result) ==
  IF result.code # ""
    THEN IF result.code = "23505"
           THEN Answer(c, 200, [ok |-> TRUE, duplicate |-> TRUE])
           ELSE Answer(c, 500, [error |-> "Failed to save walk"])
    ELSE Answer(c, 201, [walk |-> result.data])

WalksInsertReturn(s, ok) ==
  /\ calls[s].op = "POST /walks"
  /\ calls[s].pc = "insert"
  /\ LET result == WalksInsertResult(calls[s].tmp, ok) IN
     /\ calls' = [calls EXCEPT ![s] = [WalksInsertStep(calls[s], result)
                                         EXCEPT !.arg = [code |-> result.code]]]
     /\ walk_sessions' = IF result.code = "" THEN walk_sessions \cup {result.data} ELSE walk_sessions
     /\ serial' = IF result.code = "" THEN [serial EXCEPT !["walk_sessions"] = @ + 1] ELSE serial
  /\ UNCHANGED <<config, users, reqs, nonceCalls, issued, meal_analyses, now, usdaCache>>

(* ------------------------------ DELETE /dev/walk/:id ------------------ *)
DeleteReceive(s, a, id) ==
  /\ calls[s].pc = "idle"
  /\ LET c == DevGuard(NewCall("DELETE /dev/walk/:id", a, [id |-> id])) IN
     calls' = [calls EXCEPT ![s] = IF c.pc = "handler"
                                     THEN [c EXCEPT !.pc = "select", !.arg = [id |-> id]]
                                     ELSE c]
  /\ UNCHANGED <<config, users, reqs, nonceCalls, issued, walk_sessions, meal_analyses, serial, now, usdaCache>>

\* the owner of the walk is not looked at
DeleteSelectStepAnyOwner(c, ok, rows) ==
  IF ~ok THEN Answer(c, 500, [error |-> "Lookup failed"])
  ELSE IF rows = {} THEN Answer(c, 404, [error |-> "Walk not found"])
  ELSE [c EXCEPT !.pc = "delete", !.tmp = [user_id |-> (CHOOSE w \in rows : TRUE).user_id]]

\* the handler from the answer of its select to the await of its delete
DeleteSelectStep(c, ok, rows) ==
  IF ~ok THEN Answer(c, 500, [error |-> "Lookup failed"])
  ELSE IF rows = {} THEN Answer(c, 404, [error |-> "Walk not found"])
  ELSE
    LET owner == (CHOOSE w \in rows : TRUE).user_id
        c1 == [c EXCEPT !.tmp = [user_id |-> owner]]
    IN
    IF owner # c.sub THEN Answer(c1, 403, [error |-> "Not your walk"])
    ELSE [c1 EXCEPT !.pc = "delete"]

DeleteSelectReturn(s, ok) ==
  /\ calls[s].op = "DELETE /dev/walk/:id"
  /\ calls[s].pc = "select"
  /\ calls' = [calls EXCEPT ![s] =
                 DeleteSelectStep(calls[s], ok, {w \in walk_sessions : w.id = calls[s].arg.id})]
  /\ UNCHANGED <<config, users, reqs, nonceCalls, issued, walk_sessions, meal_analyses, serial, now, usdaCache>>

DeleteStep(c, ok) ==
  IF ~ok THEN Answer(c, 500, [error |-> "Delete failed"])
  ELSE Answer(c, 200, [ok |-> TRUE, id |-> c.arg.id])

DeleteReturn(s, ok) ==
  /\ calls[s].op = "DELETE /dev/walk/:id"
  /\ calls[s].pc = "delete"
  /\ calls' = [calls EXCEPT ![s] = DeleteStep(calls[s], ok)]
  /\ walk_sessions' = IF ok THEN {w \in walk_sessions : w.id # calls[s].arg.id} ELSE walk_sessions
  /\ UNCHANGED <<config, users, reqs, nonceCalls, issued, meal_analyses, serial, now, usdaCache>>

(* ------------------------------ POST /dev/reset ----------------------- *)
Arr(items) == [k |-> "array", n |-> 0, s |-> <<>>, items |-> items]
TodayText == <<"t", "o", "d", "a", "y">>
AllText == <<"a", "l", "l">>
ResetTypes == <<"walks", "meals", "profile", "wallet">>

\* devResetSchema.parse: the defaults filled in, ok false when it throws
DevResetParse(input) ==
  LET types == IF input.types.k = "undefined" THEN {"walks", "meals"}
               ELSE IF input.types.k = "array" THEN input.types.items ELSE {""}
      scope == IF input.scope.k = "undefined" THEN TodayText ELSE input.scope.s
      tz == TzParse(input.tzOffsetMin)
  IN [ok |-> /\ input.types.k \in {"undefined", "array"}
             /\ types \subseteq {ResetTypes[i] : i \in 1..Len(ResetTypes)}
             /\ input.scope.k \in {"undefined", "str"}
             /\ scope \in {TodayText, AllText}
             /\ tz.k = "num",
      types |-> types, scope |-> scope, tzOffsetMin |-> tz]

\* the catch block of the handler
ResetThrow(c, message) == Answer(c, 400, [error |-> message])

\* the handler moves on past the first done of its four blocks: to the await
\* of the next block asked for, or to its 200 response
ResetContinue(c, done) ==
  LET left == {i \in (done + 1)..Len(ResetTypes) : ResetTypes[i] \in c.arg.types} IN
  IF left = {}
    THEN Answer(c, 200, [ok |-> TRUE, scope |-> c.arg.scope, tzOffsetMin |-> c.arg.tzOffsetMin,
                         walksDeleted |-> c.tmp.walksDeleted, mealsDeleted |-> c.tmp.mealsDeleted,
                         profileCleared |-> c.tmp.profileCleared,
                         walletCleared |-> c.tmp.walletCleared])
    ELSE [c EXCEPT !.pc = ResetTypes[CHOOSE i \in left : \A j \in left : i <= j]]

ResetReceiveStep(c, t) ==
  IF c.pc # "handler" THEN c
  ELSE
    LET parsed == DevResetParse(c.input) IN
    IF ~parsed.ok THEN ResetThrow(c, "ZodError")
    ELSE
      LET win == LocalWindowUtc(parsed.tzOffsetMin, t) IN
      ResetContinue(
        [c EXCEPT !.arg = [types |-> parsed.types, scope |-> parsed.scope,
                           tzOffsetMin |-> parsed.tzOffsetMin,
                           startUtc |-> win.startUtc, endUtc |-> win.endUtc],
                  !.tmp = [walksDeleted |-> 0, mealsDeleted |-> 0, profileCleared |-> FALSE,
                           walletCleared |-> FALSE, ids |-> {}, selected |-> FALSE]],
        0)

ResetReceive(s, a, input) ==
  /\ calls[s].pc = "idle"
  /\ calls' = [calls EXCEPT ![s] = ResetReceiveStep(DevGuard(NewCall("POST /dev/reset", a, input)), now)]
  /\ UNCHANGED <<config, users, reqs, nonceCalls, issued, walk_sessions, meal_analyses, serial, now, usdaCache>>

\* the instant the store compares for column col of row w
InstantOf(w, col) == IF col = "started_at" THEN DateParse(w.started_at).n ELSE w[col]

\* the select without its filter on user_id
ResetScopeAnyUser(c, rows, col) ==
  {w \in rows :
     c.arg.scope = TodayText =>
       InstantOf(w, col) >= c.arg.startUtc /\ InstantOf(w, col) < c.arg.endUtc}

\* the rows of the user the select of a block returns, col its date column
ResetScope(c, rows, col) ==
  {w \in rows :
     /\ w.user_id = c.sub
     /\ c.arg.scope = TodayText =>
          InstantOf(w, col) >= c.arg.startUtc /\ InstantOf(w, col) < c.arg.endUtc}

\* the walks block after its select has answered
ResetWalksSelectStep(c, ok, rows) ==
  IF ~ok THEN ResetThrow(c, "Fetch walks failed")
  ELSE
    LET ids == {w.id : w \in rows} IN
    IF ids = {} THEN ResetContinue(c, 1)
    ELSE [c EXCEPT !.tmp.ids = ids, !.tmp.selected = TRUE]

ResetWalksSelected(s, ok) ==
  /\ calls[s].op = "POST /dev/reset"
  /\ calls[s].pc = "walks"
  /\ ~calls[s].tmp.selected
  /\ calls' = [calls EXCEPT ![s] =
                 ResetWalksSelectStep(calls[s], ok, ResetScope(calls[s], walk_sessions, "started_at"))]
  /\ UNCHANGED <<config, users, reqs, nonceCalls, issued, walk_sessions, meal_analyses, serial, now, usdaCache>>

ResetWalksDeleteStep(c, ok) ==
  IF ~ok THEN ResetThrow(c, "Delete walks failed")
  ELSE ResetContinue([c EXCEPT !.tmp.walksDeleted = Cardinality(c.tmp.ids),
                               !.tmp.ids = {}, !.tmp.selected = FALSE], 1)

ResetWalksDeleted(s, ok) ==
  /\ calls[s].op = "POST /dev/reset"
  /\ calls[s].pc = "walks"
  /\ calls[s].tmp.selected
  /\ calls' = [calls EXCEPT ![s] = ResetWalksDeleteStep(calls[s], ok)]
  /\ walk_sessions' = IF ok THEN {w \in walk_sessions : w.id \notin calls[s].tmp.ids}
                            ELSE walk_sessions
  /\ UNCHANGED <<config, users, reqs, nonceCalls, issued, meal_analyses, serial, now, usdaCache>>


\* the meals block after its select has answered
ResetMealsSelectStep(c, ok, rows) ==
  IF ~ok THEN ResetThrow(c, "Fetch meals failed")
  ELSE
    LET ids == {w.id : w \in rows} IN
    IF ids = {} THEN ResetContinue(c, 2)
    ELSE [c EXCEPT !.tmp.ids = ids, !.tmp.selected = TRUE]

ResetMealsSelected(s, ok) ==
  /\ calls[s].op = "POST /dev/reset"
  /\ calls[s].pc = "meals"
  /\ ~calls[s].tmp.selected
  /\ calls' = [calls EXCEPT ![s] =
                 ResetMealsSelectStep(calls[s], ok, ResetScope(calls[s], meal_analyses, "created_at"))]
  /\ UNCHANGED <<config, users, reqs, nonceCalls, issued, walk_sessions, meal_analyses, serial, now, usdaCache>>

ResetMealsDeleteStep(c, ok) ==
  IF ~ok THEN ResetThrow(c, "Delete meals failed")
  ELSE ResetContinue([c EXCEPT !.tmp.mealsDeleted = Cardinality(c.tmp.ids),
                               !.tmp.ids = {}, !.tmp.selected = FALSE], 2)

ResetMealsDeleted(s, ok) ==
  /\ calls[s].op = "POST /dev/reset"
  /\ calls[s].pc = "meals"
  /\ calls[s].tmp.selected
  /\ calls' = [calls EXCEPT ![s] = ResetMealsDeleteStep(calls[s], ok)]
  /\ meal_analyses' = IF ok THEN {w \in meal_analyses : w.id \notin calls[s].tmp.ids}
                            ELSE meal_analyses
  /\ UNCHANGED <<config, users, reqs, nonceCalls, issued, walk_sessions, serial, now, usdaCache>>

\* update(fields).eq("id", id): the table afterwards
UpdateUser(table, id, fields) ==
  [u \in DOMAIN table |-> IF u = id THEN Update(table[u], fields) ELSE table[u]]

\* the profile block resets the nonce as well
ProfileClearedAndNonce == [username |-> JsNull, last_reward_nonce |-> JsNull]

\* the columns the profile block clears (age, weight_kg and height_cm are not kept)
ProfileCleared == [username |-> JsNull]

ResetProfileStep(c, ok) ==
  IF ~ok THEN ResetThrow(c, "Profile clear failed")
  ELSE ResetContinue([c EXCEPT !.tmp.profileCleared = TRUE], 3)

ResetProfileCleared(s, ok) ==
  /\ calls[s].op = "POST /dev/reset"
  /\ calls[s].pc = "profile"
  /\ calls' = [calls EXCEPT ![s] = ResetProfileStep(calls[s], ok)]
  /\ users' = IF ok THEN UpdateUser(users, calls[s].sub, ProfileCleared) ELSE users
  /\ UNCHANGED <<config, reqs, nonceCalls, issued, walk_sessions, meal_analyses, serial, now, usdaCache>>

\* the wallet block leaves the authentication tag in place
WalletClearedButTag ==
  [wallet_address |-> JsNull, wallet_encrypted |-> JsNull, wallet_iv |-> JsNull,
   wallet_alg |-> JsNull, wallet_created_at |-> JsNull]

\* the columns the wallet block clears
WalletCleared ==
  [wallet_address |-> JsNull, wallet_encrypted |-> JsNull, wallet_iv |-> JsNull,
   wallet_tag |-> JsNull, wallet_alg |-> JsNull, wallet_created_at |-> JsNull]

ResetWalletStep(c, ok) ==
  IF ~ok THEN ResetThrow(c, "Wallet clear failed")
  ELSE ResetContinue([c EXCEPT !.tmp.walletCleared = TRUE], 4)

ResetWalletCleared(s, ok) ==
  /\ calls[s].op = "POST /dev/reset"
  /\ calls[s].pc = "wallet"
  /\ calls' = [calls EXCEPT ![s] = ResetWalletStep(calls[s], ok)]
  /\ users' = IF ok THEN UpdateUser(users, calls[s].sub, WalletCleared) ELSE users
  /\ UNCHANGED <<config, reqs, nonceCalls, issued, walk_sessions, meal_analyses, serial, now, usdaCache>>

(* ------------------------------ POST /meals/analyze ------------------- *)
Breakfast == <<"b", "r", "e", "a", "k", "f", "a", "s", "t">>
Lunch == <<"l", "u", "n", "c", "h">>
Dinner == <<"d", "i", "n", "n", "e", "r">>
Snack == <<"s", "n", "a", "c", "k">>
MealTypes == {Breakfast, Lunch, Dinner}
DailyLimit == 3
MaxCaptureAgeMs == 15000

\* no further meal is submitted once the store has handed out this many ids
MaxMealIds == 3
\* the clock stops after this many days
MaxDays == 1

\* the stub analysis, keyed off the size of the upload
Analyze(length) ==
  LET size == IF length = 0 THEN 1 ELSE length
      seed == size % 97
      protein == 10 + (seed % 31)
      carbs == 15 + ((seed * 3) % 46)
      fat == 5 + ((seed * 5) % 31)
  IN [calories |-> protein * 4 + carbs * 4 + fat * 9, protein_g |-> protein,
      carbs_g |-> carbs, fat_g |-> fat]

\* the handler up to the await of its select; input.captureAge is how far
\* capturedAt lies from the clock, in milliseconds
MealsReceiveStep(c, t) ==
  IF c.pc # "handler" THEN c
  ELSE IF Trim(JsString(JsOr(c.input.live, Str(<<>>)))) # <<"1">>
    THEN Answer(c, 400, [error |-> "Live capture required (missing X-Live-Capture header)"])
  ELSE IF TzParse(c.input.tzOffsetMin).k # "num"
            \/ ~(c.input.mealType.k = "undefined"
                   \/ (c.input.mealType.k = "str" /\ c.input.mealType.s \in MealTypes))
    THEN Answer(c, 500, [error |-> "Analysis failed"])
  ELSE IF c.input.file.k = "undefined"
    THEN Answer(c, 400, [error |-> "Missing image file (field: image)"])
  ELSE IF c.input.captureAge.k # "num"
    THEN Answer(c, 400, [error |-> "Missing or invalid capturedAt"])
  ELSE IF (IF c.input.captureAge.n < 0 THEN -c.input.captureAge.n ELSE c.input.captureAge.n)
            > MaxCaptureAgeMs
    THEN Answer(c, 400, [error |-> "Capture too old - recapture and try again"])
  ELSE
    LET win == LocalWindowUtc(TzParse(c.input.tzOffsetMin), t) IN
    [c EXCEPT !.pc = "select",
              !.arg = [mealType |-> c.input.mealType, startUtc |-> win.startUtc,
                       endUtc |-> win.endUtc, usedCount |-> 0, used |-> {}]]

MealsReceive(s, a, input) ==
  /\ calls[s].pc = "idle"
  /\ serial["meal_analyses"] < MaxMealIds
  /\ calls' = [calls EXCEPT ![s] = MealsReceiveStep(NewCall("POST /meals/analyze", a, input), now)]
  /\ UNCHANGED <<config, users, reqs, nonceCalls, issued, walk_sessions, meal_analyses, serial, now, usdaCache>>

\* the handler from the answer of its select to the await of its insert
MealsSelectStep(c, ok, todayRows) ==
  IF ~ok THEN Answer(c, 500, [error |-> "Failed to check daily limit"])
  ELSE
    LET usedCount == Cardinality(todayRows)
        c1 == [c EXCEPT !.arg.usedCount = usedCount,
                        !.arg.used = {r.meal_type.s : r \in {x \in todayRows : x.meal_type.k = "str"}}]
    IN
    IF usedCount >= DailyLimit
      THEN Answer(c1, 429, [error |-> "Daily limit reached (3 analyses per day)"])
    ELSE IF c.arg.mealType.k = "str"
              /\ \E r \in todayRows : r.meal_type = c.arg.mealType
      THEN Answer(c1, 409, [error |-> "You already analyzed %1 today", args |-> c.arg.mealType.s])
    ELSE
      [c1 EXCEPT !.pc = "insert",
                 !.tmp = [user_id |-> c.sub,
                          meal_type |-> IF c.arg.mealType.k = "str" THEN c.arg.mealType
                                                                  ELSE JsNull]
                         @@ Analyze(c.input.file.n)]

MealsSelectReturn(s, ok) ==
  /\ calls[s].op = "POST /meals/analyze"
  /\ calls[s].pc = "select"
  /\ calls' = [calls EXCEPT ![s] =
                 MealsSelectStep(calls[s], ok,
                                 {r \in meal_analyses :
                                    /\ r.user_id = calls[s].sub
                                    /\ r.created_at >= calls[s].arg.startUtc
                                    /\ r.created_at < calls[s].arg.endUtc})]
  /\ UNCHANGED <<config, users, reqs, nonceCalls, issued, walk_sessions, meal_analyses, serial, now, usdaCache>>

\* the row the store creates: id and created_at are its own
MealsInsertResult(row, ok, t) ==
  IF ~ok THEN [code |-> "08006", data |-> row]
  ELSE [code |-> "", data |-> [id |-> serial["meal_analyses"] + 1, created_at |-> t] @@ row]

\* the handler after the insert has answered
MealsInsertStep(c, result) ==
  IF result.code # "" THEN Answer(c, 500, [error |-> "Failed to record analysis"])
  ELSE
    LET remaining == IF DailyLimit - (c.arg.usedCount + 1) < 0 THEN 0
                     ELSE DailyLimit - (c.arg.usedCount + 1)
        usedTypes == IF c.arg.mealType.k = "str" THEN c.arg.used \cup {c.arg.mealType.s}
                     ELSE c.arg.used
    IN Answer(c, 200, [analysis |-> [calories |-> c.tmp.calories, protein_g |-> c.tmp.protein_g,
                                     carbs_g |-> c.tmp.carbs_g, fat_g |-> c.tmp.fat_g],
                       used |-> usedTypes, remaining |-> remaining])

MealsInsertReturn(s, ok) ==
  /\ calls[s].op = "POST /meals/analyze"
  /\ calls[s].pc = "insert"
  /\ LET result == MealsInsertResult(calls[s].tmp, ok, now) IN
     /\ calls' = [calls EXCEPT ![s] = MealsInsertStep(calls[s], result)]
     /\ meal_analyses' = IF result.code = "" THEN meal_analyses \cup {result.data} ELSE meal_analyses
     /\ serial' = IF result.code = "" THEN [serial EXCEPT !["meal_analyses"] = @ + 1] ELSE serial
  /\ UNCHANGED <<config, users, reqs, nonceCalls, issued, walk_sessions, now, usdaCache>>

\* a day passes
Tick ==
  /\ now < MaxDays * MinutesPerDay
  /\ now' = now + MinutesPerDay
  /\ UNCHANGED <<config, users, reqs, nonceCalls, issued, walk_sessions, meal_analyses, serial, calls, usdaCache>>

(* ------------------------------ specifications ------------------------ *)
InFlight(r) == reqs[r].pc \notin {"idle", "done"}

\* the configuration with the voucher feature enabled
Enabled ==
  /\ DEV_TOOLS = "1"
  /\ rewardSigner
  /\ STPC_CONTRACT_ADDRESS = ContractAddr

\* every user has the wallet made at signup
Provisioned == \A u \in Users : users[u].wallet_address = Str(WalletOf(u))

\* one request at a time, over every configuration, header and body
Next ==
  \/ \E a \in AuthInputs, b \in Bodies : Receive("r1", a, b)
  \/ \E ok \in BOOLEAN : LookupReturn("r1", ok)
  \/ \E ok \in BOOLEAN : NonceRead("r1", ok)
  \/ \E ok \in BOOLEAN : NonceWrite("r1", ok)
  \/ \E ok \in BOOLEAN : SignReturn("r1", ok)
  \/ Finish("r1")

Spec == Init /\ [][Next]_vars

\* requests of any users interleave at every await
NextRace ==
  \/ \E r \in Reqs, u \in Users, b \in ConcBodies : Receive(r, [k |-> "ok", sub |-> u], b)
  \/ \E r \in Reqs, ok \in BOOLEAN : LookupReturn(r, ok)
  \/ \E r \in Reqs, ok \in BOOLEAN : NonceRead(r, ok)
  \/ \E r \in Reqs, ok \in BOOLEAN : NonceWrite(r, ok)
  \/ \E r \in Reqs, ok \in BOOLEAN : SignReturn(r, ok)
  \/ \E r \in Reqs : Finish(r)

\* the feature is enabled and every user has a wallet
InitProvisioned == Init /\ Enabled /\ Provisioned

SpecRace == InitProvisioned /\ [][NextRace]_vars

\* the requests of one user run one after another and no store call fails
NextSerial ==
  \/ \E r \in Reqs, u \in Users, b \in ConcBodies :
       /\ \A o \in Reqs : InFlight(o) => reqs[o].sub # u
       /\ Receive(r, [k |-> "ok", sub |-> u], b)
  \/ \E r \in Reqs : LookupReturn(r, TRUE)
  \/ \E r \in Reqs : NonceRead(r, TRUE)
  \/ \E r \in Reqs : NonceWrite(r, TRUE)
  \/ \E r \in Reqs, ok \in BOOLEAN : SignReturn(r, ok)
  \/ \E r \in Reqs : Finish(r)

SpecSerial == InitProvisioned /\ [][NextSerial]_vars


(* ------------------------------ walks: inputs and specifications ------ *)
D10Z == DatePrefix \o <<"0", "0", ":", "1", "0", "Z">>
D10P == DatePrefix \o <<"0", "1", ":", "1", "0", "+", "0", "1", ":", "0", "0">>
D20Z == DatePrefix \o <<"0", "0", ":", "2", "0", "Z">>
NotADate == <<"s", "o", "o", "n">>

WalkBase ==
  [startedAt |-> Str(D10Z), endedAt |-> Str(D20Z), durationSec |-> Num(600),
   distanceM |-> Half(12), steps |-> Num(35)]

\* walks that pass walkSchema
GoodWalks ==
  {WalkBase,
   [WalkBase EXCEPT !.startedAt = Str(D10P)],
   [WalkBase EXCEPT !.startedAt = Str(D20Z), !.durationSec = Num(0), !.distanceM = Num(0),
                    !.steps = Num(0)]}

\* walks with one defect each
BadWalks ==
  {[WalkBase EXCEPT !.startedAt = Str(D20Z), !.endedAt = Str(D10Z)],
   [WalkBase EXCEPT !.startedAt = Str(NotADate)],
   [WalkBase EXCEPT !.endedAt = Undefined],
   [WalkBase EXCEPT !.durationSec = Num(-1)],
   [WalkBase EXCEPT !.durationSec = Half(1)],
   [WalkBase EXCEPT !.distanceM = Half(-1)],
   [WalkBase EXCEPT !.distanceM = Str(<<"5">>)],
   [WalkBase EXCEPT !.steps = Num(-1)],
   [WalkBase EXCEPT !.steps = Half(3)]}

WalkBodies == GoodWalks \cup BadWalks

ResetWalkInputs ==
  [types : {Arr({"walks"})}, scope : {Undefined, Str(AllText)}, tzOffsetMin : {Undefined}]

\* the bearer tokens of the users
SignedIn == {[k |-> "ok", sub |-> u] : u \in Users}

\* the voucher feature is enabled, every user has a wallet, dev tools on or off
InitService ==
  /\ Init
  /\ rewardSigner
  /\ STPC_CONTRACT_ADDRESS = ContractAddr
  /\ users = [u \in Users |-> UserRow(u, TRUE, Num(0))]

\* walk submissions, dev deletes and dev resets of any users interleave
NextWalks ==
  \/ \E s \in Slots, a \in SignedIn, b \in GoodWalks : WalksReceive(s, a, b)
  \/ \E s \in Slots, ok \in BOOLEAN : WalksInsertReturn(s, ok)
  \/ \E s \in Slots, a \in SignedIn, id \in 1..MaxWalkIds : DeleteReceive(s, a, id)
  \/ \E s \in Slots, ok \in BOOLEAN : DeleteSelectReturn(s, ok)
  \/ \E s \in Slots, ok \in BOOLEAN : DeleteReturn(s, ok)
  \/ \E s \in Slots, a \in SignedIn, input \in ResetWalkInputs : ResetReceive(s, a, input)
  \/ \E s \in Slots, ok \in BOOLEAN : ResetWalksSelected(s, ok)
  \/ \E s \in Slots, ok \in BOOLEAN : ResetWalksDeleted(s, ok)
  \/ \E s \in Slots : CallFinish(s)

SpecWalks == InitService /\ [][NextWalks]_vars

\* one request at a time, over every header and every walk
NextSubmit ==
  \/ \E a \in AuthInputs, b \in WalkBodies : WalksReceive("s1", a, b)
  \/ \E ok \in BOOLEAN : WalksInsertReturn("s1", ok)
  \/ \E a \in AuthInputs, id \in 1..MaxWalkIds : DeleteReceive("s1", a, id)
  \/ \E ok \in BOOLEAN : DeleteSelectReturn("s1", ok)
  \/ \E ok \in BOOLEAN : DeleteReturn("s1", ok)
  \/ CallFinish("s1")

SpecSubmit == InitService /\ [][NextSubmit]_vars

\* the signer or the contract address is missing
InitDisabled ==
  /\ Init
  /\ ~rewardSigner \/ STPC_CONTRACT_ADDRESS = <<>>
  /\ users = [u \in Users |-> UserRow(u, TRUE, Num(0))]

\* voucher requests that would be served were the feature enabled, and one that would not
DisabledBodies == [steps : {Num(9), Num(35), PosInf}, to : {Undefined, Str(NonHex42)}]

\* voucher requests and walk submissions while the voucher feature is disabled
NextDisabled ==
  \/ \E a \in AuthInputs, b \in DisabledBodies : Receive("r1", a, b)
  \/ Finish("r1")
  \/ \E a \in AuthInputs, b \in WalkBodies : WalksReceive("s1", a, b)
  \/ \E ok \in BOOLEAN : WalksInsertReturn("s1", ok)
  \/ CallFinish("s1")

SpecDisabled == InitDisabled /\ [][NextDisabled]_vars

(* ------------------------------ meals: inputs and specification ------- *)
MealBase ==
  [live |-> Str(<<"1">>), tzOffsetMin |-> Undefined, mealType |-> Undefined,
   file |-> Num(2048), captureAge |-> Num(0)]

MealInputs ==
  {MealBase,
   [MealBase EXCEPT !.mealType = Str(Breakfast)],
   [MealBase EXCEPT !.mealType = Str(Snack)],
   [MealBase EXCEPT !.captureAge = Num(15001)]}

ResetMealInputs ==
  [types : {Arr({"meals"})}, scope : {Undefined}, tzOffsetMin : {Undefined}]

\* dev tools are on
InitMeals == InitService /\ DEV_TOOLS = "1"

\* meal analyses and dev resets of any users interleave, and days pass
NextMeals ==
  \/ \E s \in Slots, a \in SignedIn, input \in MealInputs : MealsReceive(s, a, input)
  \/ \E s \in Slots, ok \in BOOLEAN : MealsSelectReturn(s, ok)
  \/ \E s \in Slots, ok \in BOOLEAN : MealsInsertReturn(s, ok)
  \/ \E a \in SignedIn, input \in ResetMealInputs : ResetReceive("s2", a, input)
  \/ \E ok \in BOOLEAN : ResetMealsSelected("s2", ok)
  \/ \E ok \in BOOLEAN : ResetMealsDeleted("s2", ok)
  \/ \E s \in Slots : CallFinish(s)
  \/ Tick

SpecMeals == InitMeals /\ [][NextMeals]_vars

(* ------------------------------ accounts ------------------------------ *)
\* the ids the store hands out to the rows of users, in order
UserIds == <<"u1", "u2", "u3", "u4", "u5", "u6">>
\* no further account is created once the store has handed out this many ids
MaxUserIds == 3

Letters == {UpperLetters[i] : i \in 1..Len(UpperLetters)}
            \cup {LowerLetters[i] : i \in 1..Len(LowerLetters)}

\* z.string().trim().email(): a local part, one @, a dotted domain
ZodEmail(x) ==
  /\ x.k = "str"
  /\ LET t == Trim(x.s) IN
     \E i \in 2..(Len(t) - 1) :
       /\ t[i] = "@"
       /\ \A j \in 1..Len(t) : j # i => t[j] \in Letters \cup DigitChars \cup {".", "_", "+", "-"}
       /\ \E j \in (i + 2)..(Len(t) - 2) : t[j] = "."
       /\ t[1] # "." /\ t[i + 1] # "." /\ t[Len(t)] \in Letters /\ t[Len(t) - 1] \in Letters

\* z.string().min(8)
ZodPassword(x) == x.k = "str" /\ Len(x.s) >= 8

\* profileSchema.username: trimmed, 3 to 30 characters of usernameRegex
ZodUsername(x) ==
  /\ x.k = "str"
  /\ LET t == Trim(x.s) IN
     /\ Len(t) >= 3
     /\ Len(t) <= 30
     /\ \A j \in 1..Len(t) : t[j] \in Letters \cup DigitChars \cup {".", "_", "-"}

\* mapUserRow (age, weightKg, heightCm, dailyStepGoal and createdAt are not kept)
MapUserRow(id, row) ==
  [id |-> id, email |-> row.email, username |-> row.username,
   walletAddress |-> row.wallet_address]

\* a request to an endpoint without authMiddleware
OpenCall(op, input) == [IdleCall EXCEPT !.op = op, !.input = input, !.pc = "handler"]

\* the unique index users_email_lower_unique
EmailUniqueViolation(email) ==
  \E u \in DOMAIN users : ToLowerCase(users[u].email.s) = ToLowerCase(email)

\* what the store answers to the insert of a user: the id of the new row, or an error code
UsersInsertResult(email, ok) ==
  IF ~ok THEN [code |-> "08006", id |-> ""]
  ELSE IF EmailUniqueViolation(email) THEN [code |-> "23505", id |-> ""]
  ELSE [code |-> "", id |-> UserIds[serial["users"] + 1]]

\* table users after the insert
UsersInserted(result, email, password_hash) ==
  IF result.code = "" THEN users @@ (result.id :> NewUserRow(email, password_hash)) ELSE users

\* table users after the update that stores the wallet of row id
WalletStored(id, ok) ==
  IF ok THEN UpdateUser(users, id, WalletUpdate(CreateAndEncryptWallet(WalletOf(id)), now))
  ELSE users

(* ------------------------------ POST /auth/signup --------------------- *)
\* the email is stored as it was typed
SignupReceiveStepKeepCase(c) ==
  IF ~(ZodEmail(c.input.email) /\ ZodPassword(c.input.password))
    THEN Answer(c, 400, [error |-> "Invalid input"])
  ELSE [c EXCEPT !.pc = "insert",
                 !.tmp = [email |-> Trim(c.input.email.s), password_hash |-> PasswordHash,
                          id |-> ""]]

\* the handler up to the await of its insert
SignupReceiveStep(c) ==
  IF ~(ZodEmail(c.input.email) /\ ZodPassword(c.input.password))
    THEN Answer(c, 400, [error |-> "Invalid input"])
  ELSE [c EXCEPT !.pc = "insert",
                 !.tmp = [email |-> ToLowerCase(Trim(Trim(c.input.email.s))),
                          password_hash |-> PasswordHash, id |-> ""]]

SignupReceive(s, b) ==
  /\ calls[s].pc = "idle"
  /\ serial["users"] < MaxUserIds
  /\ calls' = [calls EXCEPT ![s] = SignupReceiveStep(OpenCall("POST /auth/signup", b))]
  /\ UNCHANGED <<config, users, reqs, nonceCalls, issued, walk_sessions, meal_analyses, serial, now, usdaCache>>

\* a signup whose wallet cannot be made is refused
SignupInsertStepNeedsWallet(c, result, keyOk, table) ==
  IF result.code = "23505" THEN Answer(c, 409, [error |-> "Email already registered"])
  ELSE IF result.code # "" \/ ~keyOk THEN Answer(c, 500, [error |-> "Signup failed"])
  ELSE [c EXCEPT !.tmp.id = result.id, !.pc = "wallet"]

\* the handler after its insert has answered: keyOk is whether
\* createAndEncryptWallet finds a usable WALLET_ENCRYPTION_KEY
SignupInsertStep(c, result, keyOk, table) ==
  IF result.code = "23505" THEN Answer(c, 409, [error |-> "Email already registered"])
  ELSE IF result.code # "" THEN Answer(c, 500, [error |-> "Signup failed"])
  ELSE
    LET c1 == [c EXCEPT !.tmp.id = result.id] IN
    IF ~keyOk
      THEN Answer(c1, 201, [token |-> result.id, user |-> MapUserRow(result.id, table[result.id])])
      ELSE [c1 EXCEPT !.pc = "wallet"]

SignupInsertReturn(s, ok, keyOk) ==
  /\ calls[s].op = "POST /auth/signup"
  /\ calls[s].pc = "insert"
  /\ LET result == UsersInsertResult(calls[s].tmp.email, ok)
         table == UsersInserted(result, calls[s].tmp.email, calls[s].tmp.password_hash)
     IN
     /\ users' = table
     /\ calls' = [calls EXCEPT ![s] = [SignupInsertStep(calls[s], result, keyOk, table)
                                         EXCEPT !.arg = [code |-> result.code]]]
     /\ serial' = IF result.code = "" THEN [serial EXCEPT !["users"] = @ + 1] ELSE serial
  /\ UNCHANGED <<config, reqs, nonceCalls, issued, walk_sessions, meal_analyses, now, usdaCache>>

\* the handler after the update that stores the wallet has answered
SignupWalletStep(c, ok, table) ==
  LET updatedUser == IF ok THEN table[c.tmp.id] ELSE NewUserRow(c.tmp.email, c.tmp.password_hash)
  IN Answer(c, 201, [token |-> c.tmp.id, user |-> MapUserRow(c.tmp.id, updatedUser)])

SignupWalletReturn(s, ok) ==
  /\ calls[s].op = "POST /auth/signup"
  /\ calls[s].pc = "wallet"
  /\ users' = WalletStored(calls[s].tmp.id, ok)
  /\ calls' = [calls EXCEPT ![s] = SignupWalletStep(calls[s], ok, users')]
  /\ UNCHANGED <<config, reqs, nonceCalls, issued, walk_sessions, meal_analyses, serial, now, usdaCache>>

(* ------------------------------ POST /auth/google --------------------- *)
\* String(payload.email || "").toLowerCase().trim()
GoogleEmail(x) == IF x.k = "str" THEN Trim(ToLowerCase(x.s)) ELSE <<>>

\* the handler up to the await of its select; input.googleClient is whether
\* GOOGLE_CLIENT_ID was set, input.ticket what verifyIdToken did
GoogleReceiveStep(c) ==
  IF ~c.input.googleClient THEN Answer(c, 500, [error |-> "Google client not configured"])
  ELSE IF ~(c.input.idToken.k = "str" /\ Len(c.input.idToken.s) >= 10)
    THEN Answer(c, 400, [error |-> "Invalid idToken"])
  ELSE IF c.input.ticket = "throws" THEN Answer(c, 500, [error |-> "Google auth failed"])
  ELSE IF c.input.ticket = "null" THEN Answer(c, 401, [error |-> "Invalid Google token"])
  ELSE IF GoogleEmail(c.input.email) = <<>> \/ ~c.input.email_verified
    THEN Answer(c, 401, [error |-> "Google email not verified"])
  ELSE [c EXCEPT !.pc = "select",
                 !.tmp = [email |-> GoogleEmail(c.input.email), password_hash |-> <<>>,
                          id |-> ""]]

GoogleReceive(s, input) ==
  /\ calls[s].pc = "idle"
  /\ serial["users"] < MaxUserIds
  /\ calls' = [calls EXCEPT ![s] = GoogleReceiveStep(OpenCall("POST /auth/google", input))]
  /\ UNCHANGED <<config, users, reqs, nonceCalls, issued, walk_sessions, meal_analyses, serial, now, usdaCache>>

\* the handler after its select has answered: found is the ids .single() found
GoogleSelectStep(c, ok, found) ==
  IF ~ok \/ Cardinality(found) # 1 THEN [c EXCEPT !.pc = "insert"]
  ELSE
    LET id == CHOOSE u \in found : TRUE IN
    Answer([c EXCEPT !.tmp.id = id], 200, [token |-> id, user |-> MapUserRow(id, users[id])])

GoogleSelectReturn(s, ok) ==
  /\ calls[s].op = "POST /auth/google"
  /\ calls[s].pc = "select"
  /\ calls' = [calls EXCEPT ![s] =
                 GoogleSelectStep(calls[s], ok,
                                  {u \in DOMAIN users : users[u].email.s = calls[s].tmp.email})]
  /\ UNCHANGED <<config, users, reqs, nonceCalls, issued, walk_sessions, meal_analyses, serial, now, usdaCache>>

\* the handler after its insert has answered
GoogleInsertStep(c, result, keyOk, table) ==
  IF result.code # "" THEN Answer(c, 500, [error |-> "Signup failed"])
  ELSE
    LET c1 == [c EXCEPT !.tmp.id = result.id] IN
    IF ~keyOk
      THEN Answer(c1, 200, [token |-> result.id, user |-> MapUserRow(result.id, table[result.id])])
      ELSE [c1 EXCEPT !.pc = "wallet"]

GoogleInsertReturn(s, ok, keyOk) ==
  /\ calls[s].op = "POST /auth/google"
  /\ calls[s].pc = "insert"
  /\ LET result == UsersInsertResult(calls[s].tmp.email, ok)
         table == UsersInserted(result, calls[s].tmp.email, calls[s].tmp.password_hash)
     IN
     /\ users' = table
     /\ calls' = [calls EXCEPT ![s] = [GoogleInsertStep(calls[s], result, keyOk, table)
                                         EXCEPT !.arg = [code |-> result.code]]]
     /\ serial' = IF result.code = "" THEN [serial EXCEPT !["users"] = @ + 1] ELSE serial
  /\ UNCHANGED <<config, reqs, nonceCalls, issued, walk_sessions, meal_analyses, now, usdaCache>>

GoogleWalletStep(c, ok, table) ==
  LET user == IF ok THEN table[c.tmp.id] ELSE NewUserRow(c.tmp.email, c.tmp.password_hash)
  IN Answer(c, 200, [token |-> c.tmp.id, user |-> MapUserRow(c.tmp.id, user)])

GoogleWalletReturn(s, ok) ==
  /\ calls[s].op = "POST /auth/google"
  /\ calls[s].pc = "wallet"
  /\ users' = WalletStored(calls[s].tmp.id, ok)
  /\ calls' = [calls EXCEPT ![s] = GoogleWalletStep(calls[s], ok, users')]
  /\ UNCHANGED <<config, reqs, nonceCalls, issued, walk_sessions, meal_analyses, serial, now, usdaCache>>

(* ------------------------------ POST /profile ------------------------- *)
\* the handler up to the await of its update
ProfileReceiveStep(c) ==
  IF c.pc # "handler" THEN c
  ELSE IF ~ZodUsername(c.input.username) THEN Answer(c, 400, [error |-> "Invalid input"])
  ELSE [c EXCEPT !.pc = "update",
                 !.tmp = [username |-> ToLowerCase(Trim(Trim(c.input.username.s)))]]

ProfileReceive(s, a, b) ==
  /\ calls[s].pc = "idle"
  /\ calls' = [calls EXCEPT ![s] = ProfileReceiveStep(NewCall("POST /profile", a, b))]
  /\ UNCHANGED <<config, users, reqs, nonceCalls, issued, walk_sessions, meal_analyses, serial, now, usdaCache>>

\* the unique index users_username_lower_unique
UsernameUniqueViolation(id, username) ==
  \E u \in DOMAIN users \ {id} :
    users[u].username.k = "str" /\ ToLowerCase(users[u].username.s) = ToLowerCase(username)

\* the error code of the update, "" when it went through
ProfileUpdateResult(id, username, ok) ==
  IF ~ok THEN "08006" ELSE IF UsernameUniqueViolation(id, username) THEN "23505" ELSE ""

\* the handler after its update has answered
ProfileUpdateStep(c, code, table) ==
  IF code = "23505" THEN Answer(c, 409, [error |-> "Username already taken"])
  ELSE IF code # "" THEN Answer(c, 500, [error |-> "Profile update failed"])
  ELSE Answer(c, 200, [user |-> MapUserRow(c.sub, table[c.sub])])

ProfileUpdateReturn(s, ok) ==
  /\ calls[s].op = "POST /profile"
  /\ calls[s].pc = "update"
  /\ LET code == ProfileUpdateResult(calls[s].sub, calls[s].tmp.username, ok)
         table == IF code = ""
                    THEN UpdateUser(users, calls[s].sub, [username |-> Str(calls[s].tmp.username)])
                    ELSE users
     IN
     /\ users' = table
     /\ calls' = [calls EXCEPT ![s] = [ProfileUpdateStep(calls[s], code, table)
                                         EXCEPT !.arg = [code |-> code]]]
  /\ UNCHANGED <<config, reqs, nonceCalls, issued, walk_sessions, meal_analyses, serial, now, usdaCache>>

(* ------------------------------ POST /debug/create-wallet ------------- *)
KeyMessage == "WALLET_ENCRYPTION_KEY must be a 64-hex-character string (32 bytes)."

\* the handler up to the await of its update
CreateWalletReceiveStep(c, keyOk) ==
  IF c.pc # "handler" THEN c
  ELSE IF ~keyOk THEN Answer(c, 500, [error |-> KeyMessage])
  ELSE [c EXCEPT !.pc = "update"]

CreateWalletReceive(s, a, keyOk) ==
  /\ calls[s].pc = "idle"
  /\ calls' = [calls EXCEPT ![s] =
                 CreateWalletReceiveStep(NewCall("POST /debug/create-wallet", a, NoColumns), keyOk)]
  /\ UNCHANGED <<config, users, reqs, nonceCalls, issued, walk_sessions, meal_analyses, serial, now, usdaCache>>

\* the handler after its update has answered
CreateWalletStep(c, ok, table) ==
  IF ~ok THEN Answer(c, 500, [error |-> "Update failed"])
  ELSE Answer(c, 200, [ok |-> TRUE, address |-> table[c.sub].wallet_address])

CreateWalletReturn(s, ok) ==
  /\ calls[s].op = "POST /debug/create-wallet"
  /\ calls[s].pc = "update"
  /\ users' = WalletStored(calls[s].sub, ok)
  /\ calls' = [calls EXCEPT ![s] = CreateWalletStep(calls[s], ok, users')]
  /\ UNCHANGED <<config, reqs, nonceCalls, issued, walk_sessions, meal_analyses, serial, now, usdaCache>>

(* ------------------------------ POST /auth/set-password --------------- *)
\* bcrypt.hash(password, 10), kept as the prefix of a bcrypt hash and the password
BcryptHash(password) == PasswordHash \o password

\* the handler up to the await of its select
SetPasswordReceiveStep(c) ==
  IF c.pc # "handler" THEN c
  ELSE IF ~ZodPassword(c.input.newPassword) THEN Answer(c, 400, [error |-> "Invalid input"])
  ELSE [c EXCEPT !.pc = "select"]

SetPasswordReceive(s, a, b) ==
  /\ calls[s].pc = "idle"
  /\ calls' = [calls EXCEPT ![s] = SetPasswordReceiveStep(NewCall("POST /auth/set-password", a, b))]
  /\ UNCHANGED <<config, users, reqs, nonceCalls, issued, walk_sessions, meal_analyses, serial, now, usdaCache>>

\* the handler after its select has answered, up to the await of its update
\* (bcrypt.hash is awaited in between and reads nothing)
SetPasswordSelectStep(c, ok, table) ==
  IF ~ok \/ c.sub \notin DOMAIN table THEN Answer(c, 404, [error |-> "User not found"])
  ELSE IF Truthy(table[c.sub].password_hash) /\ Len(table[c.sub].password_hash.s) > 0
    THEN Answer(c, 409, [error |-> "Password already set. Use a password change flow."])
  ELSE [c EXCEPT !.pc = "update", !.tmp = [passwordHash |-> BcryptHash(c.input.newPassword.s)]]

SetPasswordSelectReturn(s, ok) ==
  /\ calls[s].op = "POST /auth/set-password"
  /\ calls[s].pc = "select"
  /\ calls' = [calls EXCEPT ![s] = SetPasswordSelectStep(calls[s], ok, users)]
  /\ UNCHANGED <<config, users, reqs, nonceCalls, issued, walk_sessions, meal_analyses, serial, now, usdaCache>>

\* the handler after its update has answered
SetPasswordUpdateStep(c, ok) ==
  IF ~ok THEN Answer(c, 500, [error |-> "Failed to set password"])
  ELSE Answer(c, 200, [ok |-> TRUE])

SetPasswordUpdateReturn(s, ok) ==
  /\ calls[s].op = "POST /auth/set-password"
  /\ calls[s].pc = "update"
  /\ users' = IF ok THEN UpdateUser(users, calls[s].sub,
                                    [password_hash |-> Str(calls[s].tmp.passwordHash)])
              ELSE users
  /\ calls' = [calls EXCEPT ![s] = SetPasswordUpdateStep(calls[s], ok)]
  /\ UNCHANGED <<config, reqs, nonceCalls, issued, walk_sessions, meal_analyses, serial, now, usdaCache>>

(* ------------------------------ POST /profile/goal -------------------- *)
MaxDailyStepGoal == 200000

\* goalSchema: z.coerce.number().int().min(0).max(200000)
ZodGoal(x) ==
  LET v == JsNumber(x) IN v.k = "num" /\ v.n >= 0 /\ v.n <= MaxDailyStepGoal

\* the handler up to the await of its update
GoalReceiveStep(c) ==
  IF c.pc # "handler" THEN c
  ELSE IF ~ZodGoal(c.input.dailyStepGoal) THEN Answer(c, 400, [error |-> "Invalid input"])
  ELSE [c EXCEPT !.pc = "update", !.arg = [dailyStepGoal |-> JsNumber(c.input.dailyStepGoal)]]

GoalReceive(s, a, b) ==
  /\ calls[s].pc = "idle"
  /\ calls' = [calls EXCEPT ![s] = GoalReceiveStep(NewCall("POST /profile/goal", a, b))]
  /\ UNCHANGED <<config, users, reqs, nonceCalls, issued, walk_sessions, meal_analyses, serial, now, usdaCache>>

\* the handler after its update has answered: single() fails without a row
GoalUpdateStep(c, ok, table) ==
  IF ~ok \/ c.sub \notin DOMAIN table THEN Answer(c, 500, [error |-> "Failed to update goal"])
  ELSE Answer(c, 200, [ok |-> TRUE, dailyStepGoal |-> JsNumber(table[c.sub].daily_step_goal)])

GoalUpdateReturn(s, ok) ==
  /\ calls[s].op = "POST /profile/goal"
  /\ calls[s].pc = "update"
  /\ users' = IF ok THEN UpdateUser(users, calls[s].sub,
                                    [daily_step_goal |-> calls[s].arg.dailyStepGoal])
              ELSE users
  /\ calls' = [calls EXCEPT ![s] = GoalUpdateStep(calls[s], ok, users')]
  /\ UNCHANGED <<config, reqs, nonceCalls, issued, walk_sessions, meal_analyses, serial, now, usdaCache>>

(* ------------------------------ accounts: inputs and specification ---- *)
EmailUpperA == <<"A", "@", "x", ".", "i", "o">>
EmailPaddedC == <<" ", "C", "@", "x", ".", "i", "o">>
EmailLowerC == <<"c", "@", "x", ".", "i", "o">>
Password8 == Rep("p", 8)

SignupInputs ==
  {[email |-> Str(EmailUpperA), password |-> Str(Password8)],
   [email |-> Str(EmailPaddedC), password |-> Str(Password8)],
   [email |-> Str(<<"c", "@", "x">>), password |-> Str(Password8)],
   [email |-> Str(EmailLowerC), password |-> Str(Rep("p", 7))]}

GoogleBase ==
  [googleClient |-> TRUE, idToken |-> Str(Rep("t", 10)), ticket |-> "payload",
   email |-> Str(EmailPaddedC), email_verified |-> TRUE]

GoogleInputs ==
  {GoogleBase,
   [GoogleBase EXCEPT !.email = Str(EmailUpperA)],
   [GoogleBase EXCEPT !.email_verified = FALSE],
   [GoogleBase EXCEPT !.email = Undefined],
   [GoogleBase EXCEPT !.ticket = "throws"],
   [GoogleBase EXCEPT !.ticket = "null"],
   [GoogleBase EXCEPT !.idToken = Str(Rep("t", 9))],
   [GoogleBase EXCEPT !.googleClient = FALSE]}

ProfileInputs ==
  {[username |-> Str(<<"B", "o", "b">>)],
   [username |-> Str(<<" ", "b", "o", "b">>)],
   [username |-> Str(<<"a", "l">>)],
   [username |-> Str(<<"a", "!", "l">>)]}

ResetAccountInputs ==
  [types : {Arr({"profile"}), Arr({"wallet"}), Arr({"profile", "wallet"})},
   scope : {Undefined}, tzOffsetMin : {Undefined}]

\* dev tools are on; each user has a wallet or none
InitAccounts ==
  /\ Init
  /\ DEV_TOOLS = "1"
  /\ rewardSigner
  /\ STPC_CONTRACT_ADDRESS = ContractAddr
  /\ \A u \in Users : users[u].last_reward_nonce = Num(0)

\* signups, Google sign-ins, profile updates, wallet creations and dev resets interleave
NextAccounts ==
  \/ \E s \in Slots, b \in SignupInputs : SignupReceive(s, b)
  \/ \E s \in Slots, ok \in BOOLEAN, keyOk \in BOOLEAN : SignupInsertReturn(s, ok, keyOk)
  \/ \E s \in Slots, ok \in BOOLEAN : SignupWalletReturn(s, ok)
  \/ \E s \in Slots, input \in GoogleInputs : GoogleReceive(s, input)
  \/ \E s \in Slots, ok \in BOOLEAN : GoogleSelectReturn(s, ok)
  \/ \E s \in Slots, ok \in BOOLEAN, keyOk \in BOOLEAN : GoogleInsertReturn(s, ok, keyOk)
  \/ \E s \in Slots, ok \in BOOLEAN : GoogleWalletReturn(s, ok)
  \/ \E s \in Slots, a \in AuthInputs, b \in ProfileInputs : ProfileReceive(s, a, b)
  \/ \E s \in Slots, ok \in BOOLEAN : ProfileUpdateReturn(s, ok)
  \/ \E s \in Slots, a \in AuthInputs, keyOk \in BOOLEAN : CreateWalletReceive(s, a, keyOk)
  \/ \E s \in Slots, ok \in BOOLEAN : CreateWalletReturn(s, ok)
  \/ \E s \in Slots, a \in SignedIn, input \in ResetAccountInputs : ResetReceive(s, a, input)
  \/ \E s \in Slots, ok \in BOOLEAN : ResetProfileCleared(s, ok)
  \/ \E s \in Slots, ok \in BOOLEAN : ResetWalletCleared(s, ok)
  \/ \E s \in Slots : CallFinish(s)

SpecAccounts == InitAccounts /\ [][NextAccounts]_vars

(* ------------------------------ users table: inputs and specification - *)
SetPasswordInputs ==
  {[newPassword |-> Str(Password8)], [newPassword |-> Str(Rep("q", 8))],
   [newPassword |-> Str(Rep("p", 7))]}

GoalInputs ==
  {[dailyStepGoal |-> Num(8000)], [dailyStepGoal |-> Str(<<"9">>)],
   [dailyStepGoal |-> Num(-1)], [dailyStepGoal |-> Half(1)]}

\* the row of a user, made by a signup or by a Google sign-in (password_hash "")
AccountRow(u, hasWallet, hasPassword) ==
  [UserRow(u, hasWallet, Num(0)) EXCEPT
     !.password_hash = IF hasPassword THEN @ ELSE Str(<<>>)]

\* the voucher feature and dev tools are on; every user has a wallet, and a
\* password or none
InitColumns ==
  /\ DEV_TOOLS = "1"
  /\ rewardSigner = TRUE
  /\ STPC_CONTRACT_ADDRESS = ContractAddr
  /\ \E hasPassword \in [Users -> BOOLEAN] :
       users = [u \in Users |-> AccountRow(u, TRUE, hasPassword[u])]
  /\ reqs = [r \in Reqs |-> IdleReq]
  /\ nonceCalls = [u \in Users |-> 0]
  /\ issued = [u \in Users |-> EmptyBag]
  /\ walk_sessions = {}
  /\ meal_analyses = {}
  /\ serial = [t \in Tables |-> IF t = "users" THEN Cardinality(Users) ELSE 0]
  /\ now = 0
  /\ calls = [s \in Slots |-> IdleCall]
  /\ usdaCache = NoColumns

\* the signed-in user whose account requests are followed
FirstUser == [k |-> "ok", sub |-> "u1"]

\* every endpoint that writes table users: the voucher requests of one user on
\* one slot, a signup and the account requests of that user on another
NextColumns ==
  \/ Receive("r1", FirstUser, [steps |-> Num(10), to |-> Undefined])
  \/ \E ok \in BOOLEAN : LookupReturn("r1", ok)
  \/ \E ok \in BOOLEAN : NonceRead("r1", ok)
  \/ \E ok \in BOOLEAN : NonceWrite("r1", ok)
  \/ \E ok \in BOOLEAN : SignReturn("r1", ok)
  \/ Finish("r1")
  \/ SignupReceive("s1", [email |-> Str(EmailPaddedC), password |-> Str(Password8)])
  \/ \E ok \in BOOLEAN, keyOk \in BOOLEAN : SignupInsertReturn("s1", ok, keyOk)
  \/ \E ok \in BOOLEAN : SignupWalletReturn("s1", ok)
  \/ SetPasswordReceive("s1", FirstUser, [newPassword |-> Str(Password8)])
  \/ \E ok \in BOOLEAN : SetPasswordSelectReturn("s1", ok)
  \/ \E ok \in BOOLEAN : SetPasswordUpdateReturn("s1", ok)
  \/ GoalReceive("s1", FirstUser, [dailyStepGoal |-> Num(8000)])
  \/ \E ok \in BOOLEAN : GoalUpdateReturn("s1", ok)
  \/ ProfileReceive("s1", FirstUser, [username |-> Str(<<"B", "o", "b">>)])
  \/ \E ok \in BOOLEAN : ProfileUpdateReturn("s1", ok)
  \/ CreateWalletReceive("s1", FirstUser, TRUE)
  \/ \E ok \in BOOLEAN : CreateWalletReturn("s1", ok)
  \/ \E input \in ResetAccountInputs : ResetReceive("s1", FirstUser, input)
  \/ \E ok \in BOOLEAN : ResetProfileCleared("s1", ok)
  \/ \E ok \in BOOLEAN : ResetWalletCleared("s1", ok)
  \/ CallFinish("s1")

SpecColumns == InitColumns /\ [][NextColumns]_vars

\* set-password and goal requests of any users interleave at every await
NextPasswords ==
  \/ \E s \in Slots, a \in AuthInputs, b \in SetPasswordInputs : SetPasswordReceive(s, a, b)
  \/ \E s \in Slots, ok \in BOOLEAN : SetPasswordSelectReturn(s, ok)
  \/ \E s \in Slots, ok \in BOOLEAN : SetPasswordUpdateReturn(s, ok)
  \/ \E s \in Slots, a \in AuthInputs, b \in GoalInputs : GoalReceive(s, a, b)
  \/ \E s \in Slots, ok \in BOOLEAN : GoalUpdateReturn(s, ok)
  \/ \E s \in Slots : CallFinish(s)

SpecPasswords == InitColumns /\ [][NextPasswords]_vars

(* ------------------------------ dev reset: inputs and specification --- *)
ResetInputs ==
  [types : {Undefined, Arr({"profile", "wallet"})},
   scope : {Undefined, Str(AllText)}, tzOffsetMin : {Undefined}]

\* walk submissions of any user and one meal analysis on one slot, dev resets
\* of any user on the other, and days pass
NextReset ==
  \/ \E a \in SignedIn : WalksReceive("s1", a, WalkBase)
  \/ \E ok \in BOOLEAN : WalksInsertReturn("s1", ok)
  \/ serial["meal_analyses"] = 0 /\ MealsReceive("s1", FirstUser, MealBase)
  \/ \E ok \in BOOLEAN : MealsSelectReturn("s1", ok)
  \/ \E ok \in BOOLEAN : MealsInsertReturn("s1", ok)
  \/ \E a \in SignedIn, input \in ResetInputs : ResetReceive("s2", a, input)
  \/ \E ok \in BOOLEAN : ResetWalksSelected("s2", ok)
  \/ \E ok \in BOOLEAN : ResetWalksDeleted("s2", ok)
  \/ \E ok \in BOOLEAN : ResetMealsSelected("s2", ok)
  \/ \E ok \in BOOLEAN : ResetMealsDeleted("s2", ok)
  \/ \E ok \in BOOLEAN : ResetProfileCleared("s2", ok)
  \/ \E ok \in BOOLEAN : ResetWalletCleared("s2", ok)
  \/ \E s \in Slots : CallFinish(s)
  \/ Tick

SpecReset == InitMeals /\ [][NextReset]_vars

(* ------------------------------ nutrition lookups --------------------- *)
Apple == <<"a", "p", "p", "l", "e">>
Bowl == <<"b", "o", "w", "l">>
Sandwich == <<"s", "a", "n", "d", "w", "i", "c", "h">>
Kale == <<"k", "a", "l", "e">>
Constructor == <<"c", "o", "n", "s", "t", "r", "u", "c", "t", "o", "r">>

Per100(calories, protein_g, carbs_g, fat_g) ==
  [calories |-> calories, protein_g |-> protein_g, carbs_g |-> carbs_g, fat_g |-> fat_g]

\* NUTRITION_FALLBACK_PER_100G, three of its entries, amounts in tenths
NUTRITION_FALLBACK_PER_100G ==
  (Apple :> Per100(520, 3, 140, 2)) @@ (Sandwich :> Per100(2500, 120, 280, 90))
    @@ (Bowl :> Per100(0, 0, 0, 0))

DEFAULT_FALLBACK_KEY == Sandwich

\* the lower-case property names an object literal inherits from Object.prototype
ObjectPrototypeKeys == {Constructor, <<"_", "_", "p", "r", "o", "t", "o", "_", "_">>}

\* NUTRITION_FALLBACK_PER_100G[n]: an own entry, an inherited property, or undefined
FallbackGet(n) ==
  IF n \in DOMAIN NUTRITION_FALLBACK_PER_100G THEN NUTRITION_FALLBACK_PER_100G[n]
  ELSE IF n \in ObjectPrototypeKeys THEN [k |-> "inherited", n |-> 0, s |-> n]
  ELSE Undefined

\* normalizeFoodName
NormalizeFoodName(name) == Trim(ToLowerCase(JsString(JsOr(name, Str(<<>>)))))

PREFERRED_DATA_TYPES == <<"Survey (FNDDS)", "SR Legacy", "Foundation", "Branded">>

\* PREFERRED_DATA_TYPES.indexOf(dataType || "zzz")
PreferredIndex(dataType) ==
  IF \E i \in 1..Len(PREFERRED_DATA_TYPES) : PREFERRED_DATA_TYPES[i] = dataType
    THEN (CHOOSE i \in 1..Len(PREFERRED_DATA_TYPES) : PREFERRED_DATA_TYPES[i] = dataType) - 1
    ELSE -1

\* foods.sort(...)[0] || null: the first food in the order of the comparator,
\* earlier in the response when the comparator says 0
BestFood(foods) ==
  IF foods = <<>> THEN JsNull
  ELSE
    foods[CHOOSE i \in 1..Len(foods) :
            \A j \in 1..Len(foods) :
              \/ PreferredIndex(foods[i].dataType) < PreferredIndex(foods[j].dataType)
              \/ /\ PreferredIndex(foods[i].dataType) = PreferredIndex(foods[j].dataType)
                 /\ \/ foods[i].score > foods[j].score
                    \/ foods[i].score = foods[j].score /\ i <= j]

\* extractPer100gFromFood for a food that is not branded and reports kcal:
\* the amounts of nutrients 208, 203, 205 and 204
ExtractPer100gFromFood(json) == Per100(json.n208, json.n203, json.n205, json.n204)

\* the value getPer100gForName returns when nothing else applies
DefaultFallback ==
  [per100 |-> NUTRITION_FALLBACK_PER_100G[DEFAULT_FALLBACK_KEY], source |-> "fallback",
   meta |-> [description |-> DEFAULT_FALLBACK_KEY]]

\* the task returns value to its caller
Returned(c, value) == [c EXCEPT !.pc = "done", !.res = [status |-> 0, body |-> value]]

SearchKey(n) == <<"s", "e", "a", "r", "c", "h", ":">> \o n
Per100Key(fdcId) == <<"p", "e", "r", "1", "0", "0", ":">> \o NatToString(fdcId)

\* getPer100gForName once usdaPer100gByFdcId has returned per100
AfterPer100(c, per100) ==
  IF per100.calories + per100.protein_g + per100.carbs_g + per100.fat_g > 0
    THEN Returned(c, [per100 |-> per100, source |-> "usda",
                      meta |-> [fdcId |-> c.tmp.search.fdcId,
                                description |-> c.tmp.search.description,
                                dataType |-> c.tmp.search.dataType]])
    ELSE Returned(c, DefaultFallback)

\* getPer100gForName once usdaSearchFoodByName has returned search: the
\* fallback, the cached per100, or the await of the fetch of the food
AfterSearch(c, search, cache) ==
  IF search = JsNull \/ search.fdcId = 0 THEN Returned(c, DefaultFallback)
  ELSE
    LET c1 == [c EXCEPT !.tmp.search = search] IN
    IF Per100Key(search.fdcId) \in DOMAIN cache
      THEN AfterPer100(c1, cache[Per100Key(search.fdcId)])
      ELSE [c1 EXCEPT !.pc = "per100", !.tmp.fetches = @ + 1]

\* getPer100gForName up to its first await; input.apiKey is whether
\* USDA_API_KEY is set
Per100gReceiveStep(c, cache) ==
  LET n == NormalizeFoodName(c.input.name)
      c1 == [c EXCEPT !.arg = [n |-> n], !.tmp = [search |-> JsNull, fetches |-> 0]]
  IN
  IF FallbackGet(n) # Undefined
    THEN Returned(c1, [per100 |-> FallbackGet(n), source |-> "fallback",
                       meta |-> [description |-> n]])
  ELSE IF ~c.input.apiKey THEN Returned(c1, DefaultFallback)
  ELSE IF SearchKey(n) \in DOMAIN cache THEN AfterSearch(c1, cache[SearchKey(n)], cache)
  ELSE [c1 EXCEPT !.pc = "search", !.tmp.fetches = 1]

Per100gReceive(s, input) ==
  /\ calls[s].pc = "idle"
  /\ calls' = [calls EXCEPT ![s] =
                 Per100gReceiveStep(OpenCall("getPer100gForName", input), usdaCache)]
  /\ UNCHANGED <<config, users, reqs, nonceCalls, issued, walk_sessions, meal_analyses, serial, now, usdaCache>>

\* the fetch of usdaSearchFoodByName has settled: response.ok is whether
\* httpGetJson returned, response.foods the foods of its json
UsdaSearchReturn(s, response) ==
  /\ calls[s].op = "getPer100gForName"
  /\ calls[s].pc = "search"
  /\ IF ~response.ok
       THEN /\ calls' = [calls EXCEPT ![s] = Returned(calls[s], DefaultFallback)]
            /\ usdaCache' = usdaCache
       ELSE LET best == BestFood(response.foods)
                cache == (SearchKey(calls[s].arg.n) :> best) @@ usdaCache
            IN /\ usdaCache' = cache
               /\ calls' = [calls EXCEPT ![s] = AfterSearch(calls[s], best, cache)]
  /\ UNCHANGED <<config, users, reqs, nonceCalls, issued, walk_sessions, meal_analyses, serial, now>>

\* the fetch of usdaPer100gByFdcId has settled
UsdaPer100Return(s, response) ==
  /\ calls[s].op = "getPer100gForName"
  /\ calls[s].pc = "per100"
  /\ IF ~response.ok
       THEN /\ calls' = [calls EXCEPT ![s] = Returned(calls[s], DefaultFallback)]
            /\ usdaCache' = usdaCache
       ELSE LET per100 == ExtractPer100gFromFood(response.json) IN
            /\ usdaCache' = (Per100Key(calls[s].tmp.search.fdcId) :> per100) @@ usdaCache
            /\ calls' = [calls EXCEPT ![s] = AfterPer100(calls[s], per100)]
  /\ UNCHANGED <<config, users, reqs, nonceCalls, issued, walk_sessions, meal_analyses, serial, now>>

(* ------------------------------ nutrition: inputs and specification --- *)
Food(fdcId, dataType, score) ==
  [fdcId |-> fdcId, description |-> Kale, dataType |-> dataType, score |-> score]

NameInputs ==
  {Str(<<" ", "A", "p", "p", "l", "e">>), Str(Bowl), Str(Kale), Str(<<"K", "a", "l", "e", " ">>),
   Str(Constructor)}

\* what the search of the food database answers: a failure, no food, one
\* food, or two foods in either order
SearchResponses ==
  {[ok |-> FALSE, foods |-> <<>>], [ok |-> TRUE, foods |-> <<>>],
   [ok |-> TRUE, foods |-> <<Food(1, "Branded", 9)>>],
   [ok |-> TRUE, foods |-> <<Food(1, "Branded", 9), Food(2, "Foundation", 5)>>],
   [ok |-> TRUE, foods |-> <<Food(2, "Foundation", 5), Food(1, "Foundation", 5)>>]}

\* what the fetch of one food answers: a failure, a food without amounts, or
\* one of two revisions of its amounts
FoodResponses ==
  {[ok |-> FALSE, json |-> [n208 |-> 0, n203 |-> 0, n205 |-> 0, n204 |-> 0]],
   [ok |-> TRUE, json |-> [n208 |-> 0, n203 |-> 0, n205 |-> 0, n204 |-> 0]],
   [ok |-> TRUE, json |-> [n208 |-> 490, n203 |-> 43, n205 |-> 88, n204 |-> 9]],
   [ok |-> TRUE, json |-> [n208 |-> 350, n203 |-> 29, n205 |-> 44, n204 |-> 15]]}

\* lookups of any names interleave at every fetch
NextNutrition ==
  \/ \E s \in Slots, name \in NameInputs, apiKey \in BOOLEAN :
       Per100gReceive(s, [name |-> name, apiKey |-> apiKey])
  \/ \E s \in Slots, response \in SearchResponses : UsdaSearchReturn(s, response)
  \/ \E s \in Slots, response \in FoodResponses : UsdaPer100Return(s, response)
  \/ \E s \in Slots : CallFinish(s)

SpecNutrition == InitMeals /\ [][NextNutrition]_vars

(* ------------------------------ properties ---------------------------- *)
Done(r) == reqs[r].pc = "done"
Issued(r) == Done(r) /\ reqs[r].res.status = 200

Quiescent(u) == \A r \in Reqs : InFlight(r) => reqs[r].sub # u

\* C1: for every user no nonce is carried by two issued vouchers, and once
\* the user's requests have all been answered the issued nonces are 1, 2, ...
\* up to the largest one, none skipped
C1_NonceSequence ==
  \A u \in Users :
    /\ \A n \in BagToSet(issued[u]) : CopiesIn(n, issued[u]) = 1
    /\ Quiescent(u) =>
         \A n \in BagToSet(issued[u]) : \A m \in 1..n : BagIn(m, issued[u])

\* nextNonce has returned to the handler of r
NonceReturned(r) == reqs[r].writes = 1

\* C2: with the requests of a user serialized and no store failure, the k-th
\* call of nextNonce for a user returns k, and until the next call the stored
\* last_reward_nonce is the value returned
C2_SerialNonce ==
  \A r \in Reqs :
    NonceReturned(r) =>
      /\ reqs[r].next = reqs[r].callNo
      /\ nonceCalls[reqs[r].sub] = reqs[r].callNo
           => users[reqs[r].sub].last_reward_nonce = Num(reqs[r].next)

C2_Witness ==
  \E r \in Reqs :
    /\ NonceReturned(r)
    /\ reqs[r].callNo = 3
    /\ reqs[r].next = 3
    /\ users[reqs[r].sub].last_reward_nonce = Num(3)

\* C3: the stored last_reward_nonce of every user starts at 0 and no step
\* ever lowers it
C3_NonceMonotonic ==
  /\ \A u \in Users : NonceValue(u) = 0
  /\ [][\A u \in Users : NonceValue(u)' >= NonceValue(u)]_vars


\* the number a request submits as its steps
SubmittedSteps(b) == JsNumber(JsOr(b.steps, Num(0)))

StepsBelowRate(b) ==
  \/ SubmittedSteps(b).k = "ninf"
  \/ SubmittedSteps(b).k = "num" /\ SubmittedSteps(b).n < REWARD_STEPS_PER_STPC

IsHexAddress(cs) ==
  /\ Len(cs) = 42
  /\ cs[1] = "0" /\ cs[2] = "x"
  /\ \A i \in 3..42 : cs[i] \in HexChars

\* C5: the recipient check lets by exactly the strings made of 0x and 40
\* hexadecimal characters
C5_AddressValidation ==
  \A r \in Reqs :
    /\ reqs[r].recipient = "accepted" => IsHexAddress(reqs[r].toAddr)
    /\ reqs[r].recipient = "rejected" => ~IsHexAddress(reqs[r].toAddr)

\* the recipient the claim names: the override when well-formed, else the
\* wallet on file when well-formed, else none
ExpectedRecipient(q) ==
  IF q.body.to.k = "str" /\ IsHexAddress(q.body.to.s) THEN q.body.to.s
  ELSE IF users[q.sub].wallet_address.k = "str" /\ IsHexAddress(users[q.sub].wallet_address.s)
    THEN users[q.sub].wallet_address.s
  ELSE <<>>

\* C6: a request is turned away for its recipient only when neither the
\* override nor the wallet on file is a valid address, and a voucher goes to
\* the override when that is well-formed and to the wallet on file otherwise
C6_RecipientResolution ==
  \A r \in Reqs :
    LET q == reqs[r] IN
    q.recipient # "" =>
      /\ q.recipient = "rejected" => ExpectedRecipient(q) = <<>>
      /\ Issued(r) => q.res.body.user = ExpectedRecipient(q)

\* the request has one of the three validation defects
ValidationDefect(q) ==
  \/ SubmittedSteps(q.body).k \in {"nan", "inf"}
  \/ q.recipient # "" /\ ~IsHexAddress(q.toAddr)
  \/ q.recipient # "" /\ StepsBelowRate(q.body)

\* C7: an authenticated request to the enabled endpoint with a malformed or
\* missing recipient, non-finite steps or too few steps, none of whose store
\* calls failed, is answered 400 with an error message and writes nothing to
\* the store
C7_ValidationErrors ==
  \A r \in Reqs :
    LET q == reqs[r] IN
    q.pc # "idle" /\ q.auth.k = "ok" /\ Enabled /\ ValidationDefect(q) /\ q.storeErr = "" =>
      /\ q.writes = 0
      /\ q.pc = "done" =>
           /\ q.res.status = 400
           /\ DOMAIN q.res.body = {"error"}
           /\ q.res.body.error.text # ""

\* C8: a 200 response carries stpc = floor(steps / REWARD_STEPS_PER_STPC) and
\* amount = the decimal numeral of stpc * 10^18
C8_TokenAmount ==
  \A r \in Reqs :
    Issued(r) =>
      LET v == SubmittedSteps(reqs[r].body)
          b == reqs[r].res.body
          whole == SubSeq(b.amount, 1, Len(b.amount) - TokenDecimals)
      IN
      /\ v.k = "num"
      /\ b.stpc >= 1
      /\ b.stpc * REWARD_STEPS_PER_STPC <= v.n
      /\ v.n < (b.stpc + 1) * REWARD_STEPS_PER_STPC
      /\ v.n = 25 => b.stpc = 2
      /\ v.n = 35 => b.stpc = 3
      /\ Len(b.amount) > TokenDecimals
      /\ \A i \in 1..Len(b.amount) : b.amount[i] \in DigitChars
      /\ \A i \in (Len(b.amount) - TokenDecimals + 1)..Len(b.amount) : b.amount[i] = "0"
      /\ whole[1] # "0"
      /\ DecValue(whole) = b.stpc

C8_Witness ==
  \E r \in Reqs :
    /\ Issued(r)
    /\ reqs[r].body.steps = Num(35)
    /\ reqs[r].res.body.stpc = 3
    /\ reqs[r].res.body.amount = <<"3">> \o Rep("0", 18)

VoucherFields ==
  {"contractAddress", "chainId", "user", "amount", "nonce", "signature", "stpc", "stepsPerStpc"}

\* C9: every response is either a 200 whose eight fields are all populated,
\* the signature being over this voucher's fields, or an error that carries
\* nothing but its message
C9_NoPartialVoucher ==
  \A r \in Reqs :
    Done(r) =>
      LET res == reqs[r].res IN
      IF res.status = 200
        THEN /\ DOMAIN res.body = VoucherFields
             /\ res.body.contractAddress = ContractAddr
             /\ res.body.chainId = CHAIN_ID
             /\ IsHexAddress(res.body.user)
             /\ res.body.amount # <<>>
             /\ res.body.nonce >= 1
             /\ res.body.stpc >= 1
             /\ res.body.stepsPerStpc = REWARD_STEPS_PER_STPC
             /\ res.body.signature.signer = "rewardSigner"
             /\ res.body.signature.digest.nonce = res.body.nonce
             /\ res.body.signature.digest.user = AddressBytes(res.body.user)
             /\ BigIntToString(res.body.signature.digest.amount) = res.body.amount
        ELSE /\ res.status \in {400, 401, 403, 500}
             /\ DOMAIN res.body = {"error"}

C9_Witness ==
  \E r \in Reqs :
    /\ Done(r)
    /\ reqs[r].res.status = 500
    /\ reqs[r].writes = 1
    /\ reqs[r].signs = 1
    /\ reqs[r].next >= 1

\* C10: a request whose nonce select or nonce update failed ends with status
\* 500 and only an error message, signMessage is never called for it, and
\* when it was the select that failed it has written nothing
C10_NonceFailure ==
  \A r \in Reqs :
    LET q == reqs[r] IN
    q.storeErr # "" =>
      /\ q.pc = "done"
      /\ q.res.status = 500
      /\ DOMAIN q.res.body = {"error"}
      /\ q.signs = 0
      /\ q.thrown = (IF q.storeErr = "read" THEN "Nonce read failed" ELSE "Nonce update failed")
      /\ q.storeErr = "read" => q.writes = 0

C10_Witness ==
  \E r \in Reqs :
    /\ Done(r)
    /\ reqs[r].storeErr = "read"
    /\ reqs[r].res.status = 500
    /\ reqs[r].callNo = 2


\* C11: while the signer or the contract address is missing, no voucher
\* request reads or writes the user store or is answered 200, every one that
\* passes authMiddleware and devGuard is answered 500 with the configuration
\* error, and a walk submitted meanwhile is stored and answered 201
C11_FeatureDisabled ==
  /\ \A r \in Reqs :
       LET q == reqs[r] IN
       q.pc # "idle" =>
         /\ q.pc = "done"
         /\ q.reads = 0 /\ q.writes = 0 /\ q.callNo = 0 /\ q.signs = 0
         /\ q.res.status \in {401, 403, 500}
         /\ q.auth.k = "ok" /\ DEV_TOOLS = "1" =>
              /\ q.res.status = 500
              /\ q.res.body.error.text = (IF ~rewardSigner THEN "No reward signer configured"
                                                         ELSE "STPC_CONTRACT_ADDRESS missing")
  /\ \A u \in Users : users[u] = UserRow(u, TRUE, Num(0))
  /\ \A s \in Slots :
       LET c == calls[s] IN
       c.pc = "done" /\ c.auth.k = "ok" /\ c.input \in GoodWalks /\ c.arg.code = "" =>
         /\ c.res.status = 201
         /\ c.res.body.walk \in walk_sessions

C11_Witness ==
  /\ reqs["r1"].pc = "done"
  /\ reqs["r1"].res.status = 500
  /\ reqs["r1"].body.steps = Num(35)
  /\ calls["s1"].pc = "done"
  /\ calls["s1"].res.status = 201

\* C12: a voucher request without a valid bearer token is answered 401, one
\* with a valid token while DEV_TOOLS is not "1" is answered 403, and neither
\* gets into the handler: no user row is read and no last_reward_nonce written
C12_Gating ==
  \A r \in Reqs :
    LET q == reqs[r] IN
    q.pc # "idle" /\ (q.auth.k # "ok" \/ DEV_TOOLS # "1") =>
      /\ q.pc = "done"
      /\ q.res.status = (IF q.auth.k # "ok" THEN 401 ELSE 403)
      /\ DOMAIN q.res.body = {"error"}
      /\ q.reads = 0 /\ q.writes = 0 /\ q.callNo = 0
      /\ \A u \in Users : DEV_TOOLS # "1" => NonceValue(u) = 0

C12_Witness ==
  /\ Done("r1")
  /\ reqs["r1"].res.status = 403
  /\ reqs["r1"].body.steps = Num(35)
  /\ rewardSigner
  /\ STPC_CONTRACT_ADDRESS = ContractAddr

\* the meal analyses of a user created on a day, the days being those of UTC
\* (every request of the runs leaves tzOffsetMin at 0)
MealsOfDay(u, d) ==
  {r \in meal_analyses :
     /\ r.user_id = u
     /\ r.created_at >= d * MinutesPerDay
     /\ r.created_at < (d + 1) * MinutesPerDay}

\* C13: no user ever has more than 3 meal analyses created on one day, and a
\* request that finds 3 already there is answered 429 and inserts nothing
C13_DailyLimit ==
  /\ \A u \in Users, d \in 0..MaxDays : Cardinality(MealsOfDay(u, d)) <= 3
  /\ \A s \in Slots :
       LET c == calls[s] IN
       c.op = "POST /meals/analyze" /\ c.pc \in {"insert", "done"} /\ c.sub # ""
         /\ "usedCount" \in DOMAIN c.arg /\ c.arg.usedCount >= 3 =>
           c.pc = "done" /\ c.res.status = 429

\* C14: no user ever has two meal analyses of the same meal type created on
\* one day, and a request that repeats a meal type of the day is answered 409
\* and inserts nothing
C14_OnePerMealType ==
  /\ \A u \in Users, d \in 0..MaxDays :
       \A r1, r2 \in MealsOfDay(u, d) :
         r1.meal_type.k = "str" /\ r1.meal_type = r2.meal_type => r1 = r2
  /\ \A s \in Slots :
       LET c == calls[s] IN
       c.op = "POST /meals/analyze" /\ c.pc \in {"insert", "done"} /\ c.sub # ""
         /\ "used" \in DOMAIN c.arg
         /\ c.arg.mealType.k = "str" /\ c.arg.mealType.s \in c.arg.used =>
           c.pc = "done" /\ c.res.status \in {409, 429}

\* the insert of slot s has just been answered
WalkInserted(s) ==
  /\ calls[s].op = "POST /walks"
  /\ calls[s].pc = "insert"
  /\ calls'[s].pc = "done"

SameWalk(w, row) == w.user_id = row.user_id /\ w.started_at = row.started_at

C15_DuplicateLeavesSet ==
  \A s \in Slots :
    WalkInserted(s) /\ (\E w \in walk_sessions : SameWalk(w, calls[s].tmp)) =>
      /\ walk_sessions' = walk_sessions
      /\ calls'[s].arg.code # "08006" =>
           /\ calls'[s].res.status = 200
           /\ calls'[s].res.body = [ok |-> TRUE, duplicate |-> TRUE]

C15_OnePerStart ==
  \A w1, w2 \in walk_sessions : SameWalk(w1, w2) => w1 = w2

\* C15: a walk submitted again for the same user and start instant leaves the
\* stored sessions unchanged and is answered 200 with duplicate true, and the
\* store never holds two sessions of one user with the same start
C15_Idempotent == []C15_OnePerStart /\ [][C15_DuplicateLeavesSet]_vars

\* a resubmission, spelled with another offset, has been answered as duplicate
C15_Witness ==
  \E s \in Slots :
    /\ calls[s].op = "POST /walks"
    /\ calls[s].pc = "done"
    /\ calls[s].res.status = 200
    /\ calls[s].res.body = [ok |-> TRUE, duplicate |-> TRUE]
    /\ \E w \in walk_sessions :
         /\ SameWalk(w, calls[s].tmp)
         /\ w.started_at # calls[s].input.startedAt.s

\* the stored walks keep their columns: a row of the next state is a row of
\* this state or has an id no row of this state has
C16_NeverMutated ==
  \A w \in walk_sessions' :
    w \in walk_sessions \/ \A v \in walk_sessions : v.id # w.id

\* a row that disappears is taken by a dev request of its owner, dev tools on
C16_DeletedByOwner ==
  \A w \in walk_sessions \ walk_sessions' :
    /\ DEV_TOOLS = "1"
    /\ \E s \in Slots :
         /\ calls[s].op \in {"DELETE /dev/walk/:id", "POST /dev/reset"}
         /\ calls'[s] # calls[s]
         /\ calls[s].sub = w.user_id

\* a delete that has looked up the walk of another user is over, answered 403
C16_NotYourWalk ==
  \A s \in Slots :
    LET c == calls[s] IN
    c.op = "DELETE /dev/walk/:id" /\ "user_id" \in DOMAIN c.tmp /\ c.tmp.user_id # c.sub =>
      c.pc = "done" /\ c.res.status = 403

\* C16: a stored walk is never changed; it is removed only by a dev request of
\* its owner while dev tools are enabled, and a delete aimed at another user's
\* walk is answered 403
C16_WalksImmutable ==
  []C16_NotYourWalk /\ [][C16_NeverMutated /\ C16_DeletedByOwner]_vars

\* a user asked to delete the stored walk of another user and got 403
C16_Witness ==
  \E s \in Slots :
    /\ calls[s].op = "DELETE /dev/walk/:id"
    /\ calls[s].pc = "done"
    /\ calls[s].res = [status |-> 403, body |-> [error |-> "Not your walk"]]
    /\ \E w \in walk_sessions : w.id = calls[s].arg.id /\ w.user_id # calls[s].sub

\* a negative number, whole or not
Negative(x) == x.k \in {"num", "half"} /\ x.n < 0

\* the body breaks one of the walk invariants
C17_Breaks(b) ==
  \/ Negative(b.durationSec)
  \/ Negative(b.distanceM)
  \/ Negative(b.steps)
  \/ /\ b.startedAt.k = "str" /\ DateParse(b.startedAt.s).k = "num"
     /\ b.endedAt.k = "str" /\ DateParse(b.endedAt.s).k = "num"
     /\ DateParse(b.endedAt.s).n < DateParse(b.startedAt.s).n

C17_StoredWalks ==
  \A w \in walk_sessions :
    /\ DateParse(w.ended_at).n >= DateParse(w.started_at).n
    /\ w.duration_sec.k = "num" /\ w.duration_sec.n >= 0
    /\ w.distance_m.k \in {"num", "half"} /\ w.distance_m.n >= 0
    /\ w.steps.k = "num" /\ w.steps.n >= 0
    /\ w.user_id \in Users

C17_Rejected ==
  \A s \in Slots :
    LET c == calls[s] IN
    c.op = "POST /walks" /\ c.auth.k = "ok" /\ C17_Breaks(c.input) =>
      /\ c.pc = "done"
      /\ c.res.status = 400
      /\ c.res.body.error = "Invalid input"

\* a row enters the store for the user whose token the request carried, and
\* a request answered 400 leaves the store alone
C17_OwnedByCaller ==
  /\ \A w \in walk_sessions' \ walk_sessions :
       \E s \in Slots :
         /\ calls[s].op = "POST /walks" /\ calls[s].pc = "insert"
         /\ calls[s].auth = [k |-> "ok", sub |-> w.user_id]
         /\ ~C17_Breaks(calls[s].input)
  /\ \A s \in Slots :
       calls'[s] # calls[s] /\ calls'[s].op = "POST /walks" /\ calls'[s].res.status = 400 =>
         walk_sessions' = walk_sessions

\* C17: every stored walk ends no earlier than it starts, has duration,
\* distance and steps of at least 0 and belongs to the user who submitted it;
\* a submission that breaks one of these is answered 400 and stores nothing
C17_WalkInvariants ==
  [](C17_StoredWalks /\ C17_Rejected) /\ [][C17_OwnedByCaller]_vars

\* a walk is stored while a submission with negative steps has been refused
C17_Witness ==
  /\ walk_sessions # {}
  /\ \E s \in Slots :
       /\ calls[s].op = "POST /walks"
       /\ calls[s].pc = "done"
       /\ calls[s].res.status = 400
       /\ Negative(calls[s].input.steps)

WalletColumns ==
  {"wallet_address", "wallet_encrypted", "wallet_iv", "wallet_tag", "wallet_alg"}

\* C18: in every state the wallet columns of every user row are all present
\* or all absent
C18_WalletAllOrNone ==
  \A u \in DOMAIN users :
    \/ \A col \in WalletColumns : users[u][col] = JsNull
    \/ \A col \in WalletColumns : users[u][col].k = "str" /\ users[u][col].s # <<>>

\* a dev reset has cleared the wallet of one user while a user created since
\* the start holds a wallet
C18_Witness ==
  /\ \E s \in Slots :
       /\ calls[s].op = "POST /dev/reset"
       /\ calls[s].pc = "done"
       /\ calls[s].res.status = 200
       /\ calls[s].res.body.walletCleared
       /\ users[calls[s].sub].wallet_address = JsNull
  /\ \E u \in DOMAIN users \ Users : users[u].wallet_address # JsNull

Capitals == {UpperLetters[i] : i \in 1..Len(UpperLetters)}

\* emails are present, lower-cased and pairwise different; usernames that are
\* present are lower-cased and pairwise different
C19_Unique ==
  /\ \A u \in DOMAIN users :
       /\ users[u].email.k = "str"
       /\ users[u].email.s # <<>>
       /\ \A i \in 1..Len(users[u].email.s) : users[u].email.s[i] \notin Capitals
       /\ users[u].username.k \in {"null", "str"}
       /\ \A i \in 1..Len(users[u].username.s) : users[u].username.s[i] \notin Capitals
  /\ \A u, v \in DOMAIN users :
       u # v =>
         /\ users[u].email.s # users[v].email.s
         /\ users[u].username.k = "str" => users[u].username # users[v].username

\* a signup whose email is taken, whatever its case and padding, is answered
\* 409 unless the store call itself fails, and leaves the rows as they are
C19_SignupConflict ==
  \A s \in Slots :
    /\ calls[s].op = "POST /auth/signup"
    /\ calls[s].pc = "insert"
    /\ calls'[s].pc # "insert"
    /\ \E u \in DOMAIN users :
         users[u].email.s = ToLowerCase(Trim(calls[s].input.email.s))
    => /\ users' = users
       /\ calls'[s].pc = "done"
       /\ calls'[s].arg.code # "08006" =>
            calls'[s].res = [status |-> 409, body |-> [error |-> "Email already registered"]]

\* a profile update whose username another user holds is answered 409 unless
\* the store call itself fails, and leaves the rows as they are
C19_ProfileConflict ==
  \A s \in Slots :
    /\ calls[s].op = "POST /profile"
    /\ calls[s].pc = "update"
    /\ calls'[s].pc # "update"
    /\ \E u \in DOMAIN users \ {calls[s].sub} :
         /\ users[u].username.k = "str"
         /\ users[u].username.s = ToLowerCase(Trim(calls[s].input.username.s))
    => /\ users' = users
       /\ calls'[s].pc = "done"
       /\ calls'[s].arg.code # "08006" =>
            calls'[s].res = [status |-> 409, body |-> [error |-> "Username already taken"]]

\* C19: every user has an email; emails and usernames are stored lower-cased
\* and no two users share one; a signup with a taken email is answered 409
\* 'Email already registered', a profile update with a taken username 409
\* 'Username already taken', and neither changes a row
C19_EmailUsername == []C19_Unique /\ [][C19_SignupConflict /\ C19_ProfileConflict]_vars

\* both conflicts have been answered while a signed-up user and a username exist
C19_Witness ==
  /\ \E s \in Slots :
       calls[s].res = [status |-> 409, body |-> [error |-> "Email already registered"]]
  /\ \E s \in Slots :
       calls[s].res = [status |-> 409, body |-> [error |-> "Username already taken"]]
  /\ DOMAIN users # Users

\* the read takes the stored nonce plus one and leaves the row as it is, so
\* a second read before the write takes the same value
C21_ReadReservesNothing ==
  \A r \in Reqs :
    reqs[r].pc = "nonceRead" /\ reqs'[r].pc = "nonceWrite" =>
      /\ reqs'[r].next = NonceValue(reqs[r].sub) + 1
      /\ users' = users

\* the write stores and returns what the request read, whatever is stored by then
C21_WriteKeepsRead ==
  \A r \in Reqs :
    reqs[r].pc = "nonceWrite" /\ reqs'[r].pc = "sign" =>
      /\ reqs'[r].next = reqs[r].next
      /\ users'[reqs[r].sub].last_reward_nonce = Num(reqs[r].next)

\* C21: two concurrent voucher requests of one user can both read the same
\* last_reward_nonce before either writes, and then both return the same nonce
C21_DuplicateNonce == [][C21_ReadReservesNothing /\ C21_WriteKeepsRead]_vars

\* two issued vouchers of one user carry the same nonce
C21_Witness ==
  \E r1, r2 \in Reqs :
    /\ r1 # r2
    /\ Issued(r1) /\ Issued(r2)
    /\ reqs[r1].sub = reqs[r2].sub
    /\ reqs[r1].res.body.nonce = reqs[r2].res.body.nonce
    /\ CopiesIn(reqs[r1].res.body.nonce, issued[reqs[r1].sub]) >= 2

\* signMessage has failed for r after nextNonce returned
SignFailed(r) == Done(r) /\ reqs[r].thrown = "signMessage failed"

\* the step on which signMessage fails answers 500 and leaves the bumped
\* nonce in the row
C22_NotRolledBack ==
  \A r \in Reqs :
    reqs[r].pc = "sign" /\ reqs'[r] # reqs[r] /\ issued' = issued =>
      /\ reqs'[r].pc = "done"
      /\ reqs'[r].res.status = 500
      /\ users' = users
      /\ users'[reqs[r].sub].last_reward_nonce = Num(reqs[r].next)

\* no voucher of the user carries the nonce of a request whose signing
\* failed, and the voucher of the user's next call carries that nonce plus one
C22_Burned ==
  \A r \in Reqs :
    SignFailed(r) =>
      /\ ~BagIn(reqs[r].next, issued[reqs[r].sub])
      /\ NonceValue(reqs[r].sub) >= reqs[r].next
      /\ \A o \in Reqs :
           Issued(o) /\ reqs[o].sub = reqs[r].sub /\ reqs[o].callNo = reqs[r].callNo + 1 =>
             reqs[o].res.body.nonce = reqs[r].next + 1

\* C22: when signing fails after nextNonce succeeded the request ends with
\* 500, the stored last_reward_nonce keeps the bumped value, and with the
\* user's requests serialized no voucher ever carries that value: the next
\* voucher carries the value plus one
C22_NonceBurned == []C22_Burned /\ [][C22_NotRolledBack]_vars

\* a signing failure burned a nonce and the next voucher of the user has been
\* issued with the one after it
C22_Witness ==
  \E r, o \in Reqs :
    /\ SignFailed(r)
    /\ Issued(o)
    /\ reqs[o].sub = reqs[r].sub
    /\ reqs[o].res.body.nonce = reqs[r].next + 1
    /\ ~BagIn(reqs[r].next, issued[reqs[r].sub])

\* the external operations of a voucher request, in the order of the handler
Stages == <<"lookup", "nonceRead", "nonceWrite", "sign">>
StageOf(pc) == CHOOSE i \in 1..Len(Stages) : Stages[i] = pc

\* the operation r was waiting for has failed on this step
C23_Failed(r) ==
  \/ reqs[r].pc = "lookup" /\ reqs'[r].recipient = ""
  \/ reqs[r].pc \in {"nonceRead", "nonceWrite"} /\ reqs'[r].storeErr # reqs[r].storeErr
  \/ reqs[r].pc = "sign" /\ issued' = issued

\* a request waiting for an operation moves on to the next operation or to
\* its answer, never back and never to the same operation again; when the
\* operation failed it moves to the answer, which is 500
C23_OnceEach ==
  \A r \in Reqs :
    (\E i \in 1..Len(Stages) : Stages[i] = reqs[r].pc) /\ reqs'[r] # reqs[r] =>
      /\ \/ reqs'[r].pc = "done"
         \/ /\ StageOf(reqs[r].pc) < Len(Stages)
            /\ reqs'[r].pc = Stages[StageOf(reqs[r].pc) + 1]
      /\ C23_Failed(r) => reqs'[r].pc = "done" /\ reqs'[r].res.status = 500
      /\ reqs'[r].pc = "done" /\ reqs'[r].res.status # 200 =>
           reqs'[r].signs = reqs[r].signs /\ reqs'[r].reads = reqs[r].reads

\* an answered request is not taken up again
C23_AnswerIsFinal ==
  \A r \in Reqs : reqs[r].pc = "done" /\ reqs'[r] # reqs[r] => reqs'[r] = IdleReq

C23_AtMostOnce ==
  \A r \in Reqs : reqs[r].reads <= 2 /\ reqs[r].writes <= 1 /\ reqs[r].signs <= 1

\* C23: within one voucher request the wallet-address read, the nonce read,
\* the nonce write and the signing are each attempted at most once, and after
\* the first failure nothing further is attempted and the request fails
C23_NoRetries == []C23_AtMostOnce /\ [][C23_OnceEach /\ C23_AnswerIsFinal]_vars

\* the nonce write failed: the request is answered 500 and signing was not tried
C23_Witness ==
  \E r \in Reqs :
    /\ reqs[r].pc = "done"
    /\ reqs[r].res.status = 500
    /\ reqs[r].storeErr = "write"
    /\ reqs[r].reads = 2
    /\ reqs[r].signs = 0

\* C24: an entry of usdaCache, once computed, keeps its value under any
\* interleaving of lookups; two concurrent lookups of one uncached key only
\* cost a second external call.
C24_EntryKept ==
  \A key \in DOMAIN usdaCache : key \in DOMAIN usdaCache' /\ usdaCache'[key] = usdaCache[key]

C24_CacheImmutable == [][C24_EntryKept]_vars

\* C25: getPer100gForName returns the entry of the static table, with source
\* 'fallback' and without an external call, exactly for the names of the table,
\* and what it returns is always a nutrient record.
C25_NutrientRecord(per100) ==
  /\ DOMAIN per100 = {"calories", "protein_g", "carbs_g", "fat_g"}
  /\ \A f \in DOMAIN per100 : per100[f] \in Nat

C25_AlwaysARecord ==
  \A s \in Slots :
    (calls[s].op = "getPer100gForName" /\ calls[s].pc = "done") =>
      /\ C25_NutrientRecord(calls[s].res.body.per100)
      /\ calls[s].res.body.source \in {"fallback", "usda"}
      /\ (calls[s].res.body.source = "fallback" /\ calls[s].tmp.fetches = 0
            /\ calls[s].res.body.meta.description # DEFAULT_FALLBACK_KEY)
           => calls[s].arg.n \in DOMAIN NUTRITION_FALLBACK_PER_100G

\* C26: last_reward_nonce of a row changes only when nextNonce writes it for
\* that user; the signup wallet creation, /debug/create-wallet, /profile,
\* /profile/goal, /auth/set-password and /dev/reset with any types leave it
\* as it is.
C26_WrittenByNextNonce ==
  \A u \in DOMAIN users :
    /\ u \in DOMAIN users'
    /\ users'[u].last_reward_nonce # users[u].last_reward_nonce =>
         \E r \in Reqs :
           /\ reqs[r].sub = u
           /\ reqs[r].pc = "nonceWrite"
           /\ reqs'[r].pc # "nonceWrite"
           /\ users'[u].last_reward_nonce = Num(reqs[r].next)

C26_OtherEndpointsKeep ==
  calls' # calls =>
    \A u \in DOMAIN users : users'[u].last_reward_nonce = users[u].last_reward_nonce

C26_NonceColumn == [][C26_WrittenByNextNonce /\ C26_OtherEndpointsKeep]_vars

\* a dev reset that cleared the profile of a user whose nonce has been bumped
C26_Witness ==
  \E s \in Slots :
    /\ calls[s].op = "POST /dev/reset"
    /\ calls[s].pc = "done"
    /\ calls[s].res.status = 200
    /\ calls[s].tmp.profileCleared
    /\ users[calls[s].sub].last_reward_nonce.k = "num"
    /\ users[calls[s].sub].last_reward_nonce.n > 0

\* C27: voucher issuance is independent per user: under any interleaving, no
\* step of a request of user A changes last_reward_nonce of another user B.
C27_OthersKept ==
  \A r \in Reqs :
    reqs'[r] # reqs[r] =>
      \A u \in DOMAIN users :
        (u # reqs[r].sub /\ u # reqs'[r].sub) =>
          /\ u \in DOMAIN users'
          /\ users'[u].last_reward_nonce = users[u].last_reward_nonce

C27_PerUser == [][C27_OthersKept]_vars

\* vouchers were issued to two users, one of them twice
C27_Witness ==
  \E a, b \in Reqs :
    /\ Issued(a) /\ Issued(b)
    /\ reqs[a].sub # reqs[b].sub
    /\ users[reqs[a].sub].last_reward_nonce = Num(2)
    /\ users[reqs[b].sub].last_reward_nonce = Num(1)

\* C28: POST /auth/set-password never overwrites an existing password: under
\* any interleaving, password_hash is written only while it is empty or
\* absent, and once it is non-empty it keeps its value.
C28_HashKept ==
  \A u \in DOMAIN users :
    (Truthy(users[u].password_hash) /\ u \in DOMAIN users') =>
      users'[u].password_hash = users[u].password_hash

C28_NeverOverwrites == [][C28_HashKept]_vars

\* C29: a signup does not depend on the wallet: when the row was inserted and
\* the generation, the encryption or the update of the wallet fails, the
\* answer is 201 with a token and the user, the row stays in the table and
\* all its wallet columns are absent.
C29_WalletFailed(s) ==
  /\ calls[s].op = "POST /auth/signup"
  /\ calls'[s].pc = "done"
  /\ \/ calls[s].pc = "insert" /\ calls'[s].arg.code = ""
     \/ calls[s].pc = "wallet" /\ users' = users

C29_StillCreated ==
  \A s \in Slots :
    C29_WalletFailed(s) =>
      LET id == calls'[s].tmp.id IN
      /\ id \in DOMAIN users'
      /\ calls'[s].res.status = 201
      /\ calls'[s].res.body.token = id
      /\ calls'[s].res.body.user = MapUserRow(id, users'[id])
      /\ calls'[s].res.body.user.email = Str(calls[s].tmp.email)
      /\ calls'[s].res.body.user.walletAddress = JsNull
      /\ \A col \in WalletColumns : users'[id][col] = JsNull

C29_RowsPersist == \A u \in DOMAIN users : u \in DOMAIN users'

C29_SignupWithoutWallet == [][C29_StillCreated /\ C29_RowsPersist]_vars

\* a signup answered 201 for a row without a wallet
C29_Witness ==
  \E s \in Slots :
    /\ calls[s].op = "POST /auth/signup"
    /\ calls[s].pc = "done"
    /\ calls[s].res.status = 201
    /\ \A col \in WalletColumns : users[calls[s].tmp.id][col] = JsNull

\* C30: a POST /dev/reset of user U touches only the data of U and only the
\* types it names: it deletes no walk or meal of another user and changes no
\* other row of users, it leaves the types it does not name as they are, and
\* with scope 'today' it deletes only rows whose timestamp is in
\* [startUtc, endUtc).
C30_Deleted(c, before, after, type, col) ==
  /\ after \subseteq before
  /\ \A w \in before \ after :
       /\ w.user_id = c.sub
       /\ type \in c.arg.types
       /\ c.arg.scope = TodayText =>
            InstantOf(w, col) >= c.arg.startUtc /\ InstantOf(w, col) < c.arg.endUtc

C30_RowsOfUsers(c) ==
  /\ DOMAIN users' = DOMAIN users
  /\ \A u \in DOMAIN users :
       \A col \in DOMAIN users[u] :
         users'[u][col] # users[u][col] =>
           /\ u = c.sub
           /\ \/ col \in DOMAIN ProfileCleared /\ "profile" \in c.arg.types
              \/ col \in DOMAIN WalletCleared /\ "wallet" \in c.arg.types

C30_OwnDataOnly ==
  \A s \in Slots :
    (calls[s].op = "POST /dev/reset" /\ calls'[s] # calls[s]) =>
      /\ C30_Deleted(calls[s], walk_sessions, walk_sessions', "walks", "started_at")
      /\ C30_Deleted(calls[s], meal_analyses, meal_analyses', "meals", "created_at")
      /\ C30_RowsOfUsers(calls[s])

C30_ResetScoped == [][C30_OwnDataOnly]_vars

\* a reset of scope today deleted rows of its user; a walk of that user from
\* the day before and a walk of the other user are still there
C30_Witness ==
  \E s \in Slots :
    /\ calls[s].op = "POST /dev/reset"
    /\ calls[s].pc = "done"
    /\ calls[s].res.status = 200
    /\ calls[s].arg.scope = TodayText
    /\ calls[s].tmp.walksDeleted + calls[s].tmp.mealsDeleted > 0
    /\ \E w \in walk_sessions : w.user_id # calls[s].sub
    /\ \E w \in walk_sessions :
         w.user_id = calls[s].sub /\ InstantOf(w, "started_at") < calls[s].arg.startUtc
====
